---- MODULE Spec2Model ----
(***************************************************************************)
(* State-machine model of ESP32-sensor.ino: the Timer-0 sampling ISR, the  *)
(* Timer-1 acquisition tick, the processing task on core 1 (spectral       *)
(* pipeline, acquisition pass, servo sweep), setup(), and the HTTP         *)
(* handlers of the asynchronous web server (/fft, /data, /trigger).        *)
(*                                                                         *)
(* Granularity: an ISR runs to completion and is one step.  The processing *)
(* task and the web task are sequences of steps, one per statement group   *)
(* that reads or writes shared memory, so that every interleaving of the   *)
(* two tasks and the ISRs is explored.                                     *)
(***************************************************************************)
EXTENDS Integers, Sequences, FiniteSets, TLC

(* ------------------------------ bounds -------------------------------- *)
\* Buffer length S. The program uses 4096 (Config::FFT_SAMPLES); the model
\* keeps the structure of the fill/drain cycle with a short buffer.
FFT_SAMPLES == 2
\* Number of bands of the published spectrum. The program uses 32.
NUM_BANDS == 2
\* Threshold of the consecutive-error counter. The program uses 20.
BUS_ERROR_LIMIT == 1
\* Number of distinct tags that tell the buffers (cycles) apart.
CycleTags == 2
\* Read periods in units of the model's clock step (1000 ms): the program
\* reads the thermal/humidity sensor every 2000 ms, the gas sensor every
\* 1000 ms and retries absent sensors every 10000 ms.
SHT_PERIOD == 2
SGP_PERIOD == 1
RETRY_PERIOD == 3
\* The numeric content of the pipeline is checked on a buffer of its own,
\* long enough for the band reduction to have groups: DSP_SAMPLES samples
\* (program: 4096) reduced to DSP_BANDS bands (program: 32), over at most
\* MaxRuns consecutive invocations.
DSP_SAMPLES == 8
DSP_BANDS == 2
MaxRuns == 3

(* ------------------------- program constants -------------------------- *)
SAMPLING_FREQ == 8000
DEFAULT_TEMP == 25
DEFAULT_HUMI == 50
\* float values are held as integers in units of 2^-26, the spacing of the
\* float grid between 0.125 and 0.25; every float from 0.125 up to 16 is a
\* multiple of it.  ONE is 1.0f.
ONE == 67108864
\* float alpha = 0.2f: the float nearest to 0.2 is 13421773 * 2^-26.
ALPHA == 13421773
\* if (finalMag < 5.0f)
NOISE_FLOOR == 335544320

(* --------------------------- input domains ---------------------------- *)
\* analogRead() of the 12-bit ADC: the two extremes.
Samples == {0, 4095}
\* Band magnitudes after smoothing and floor cut-off: silent, or audible.
FinalMags == {0, 40}
\* Magnitudes the transform can leave in a bin: 0 and 10.5 (in units of
\* 2^-26), so that the mean of a group is exact.
MagVals == {0, 704643072}
\* (temperature, humidity) pairs a thermal/humidity measurement can deliver.
ShtPairs == {<<21, 40>>, <<30, 65>>}
\* (srawVoc, srawNox) pairs a gas measurement can deliver.
SgpPairs == {<<30000, 16000>>, <<31000, 17000>>}
\* Outputs of the gas index algorithms once they have been fed a raw value.
VocIndexVals == {100, 120}
NoxIndexVals == {1}
\* readLightLevel(): a negative value reports an error.
LuxVals == {-1, 300}
\* The three I2C devices: light (0x23), thermal/humidity (0x44 or 0x45) and
\* gas (0x59).
Devices == {"bh", "sht", "sgp"}

VARIABLES
    setupPc,            \* position of setup()
    systemReady,        \* volatile bool systemReady
    isBufferFull,       \* volatile bool isBufferFull
    timerSensorFlag,    \* volatile bool timerSensorFlag
    servoTriggered,     \* volatile bool servoTriggered
    sampleIndex,        \* static int sampleIndex of onTimer0
    vReal, vImag,       \* the sample buffers
    fftMutex,           \* holder of fftMutex: "free", "proc" or "web"
    fftJsonData,        \* the published spectrum ("[]" = the empty sequence)
    gData,              \* struct SensorData gData
    consecutiveErrors,  \* static int consecutiveErrors of updateSensorData
    servoPos,           \* last position written to the servo
    procPc,             \* position of processingTask
    json,               \* local json of processFFTLogic
    wrPos,              \* progress of the assignment fftJsonData = json
    fftTook,            \* whether processFFTLogic obtained the mutex
    shtHumi,            \* humidity still to be stored by measureHighPrecision
    sgpNox,             \* srawNox still to be stored by measureRawSignals
    webPc,              \* position of the web task's current handler
    safeFFT,            \* local safeFFT of the /fft handler
    rdPos,              \* progress of the assignment safeFFT = fftJsonData
    payload,            \* fields of gData read so far by the /data handler
    onBus,              \* environment: the devices that answer on the I2C bus
    sinceSht,           \* millis() - shtTick, capped at SHT_PERIOD
    sinceSgp,           \* millis() - sgpTick, capped at SGP_PERIOD
    sinceRetry,         \* millis() - retryTick, capped at RETRY_PERIOD
    comp,               \* locals <<compT, compH>> of the gas read in progress
    begun,              \* the devices whose driver has been started (begin())
    shtAddr,            \* the address given to sht4x.begin (0: not started)
    shtAcked,           \* the addresses that answered a probe of the running call
    \* history variables (not program state)
    lastTick0,          \* what the last Timer-0 tick did
    cycle,              \* tag of the last completed buffer (0: none yet)
    runsThisBuffer,     \* pipeline invocations since the last completed buffer
    published,          \* value of fftJsonData when the pipeline last took or released the mutex
    vocOf, noxOf,       \* raw values the current gas indices were computed from
    recovery,           \* what the last bus-recovery check did
    sgpFailed,          \* the gas read of the pass in progress failed
    lastSht,            \* the last pair a thermal/humidity read delivered
    bhRead,             \* what the light read of the pass in progress did
    overrun,            \* a tick arrived while an earlier tick was unserved
    unserved,           \* a Timer-1 tick arrived and no pass has begun since
    pendingTriggers,    \* /trigger requests since the last sweep ended (capped at 2)
    absorbed,           \* /trigger requests the last completed sweep served (capped at 2)
    \* the numeric pipeline on its own
    dspPc,              \* position of processFFTLogic: "idle", "dc", "xform", "bands"
    specBuf,            \* vReal of this run: DSP_SAMPLES entries
    smoothedBins,       \* static float smoothedBins[]
    fftMags,            \* the magnitudes (tenths) serialised by the last invocation
    dspRuns,            \* invocations started so far
    \* history variables of the numeric pipeline
    zeroFed,            \* the buffer of the current invocation was all zero
    rawBins,            \* currentMag of each band in the last invocation
    prevBins,           \* smoothedBins as the last invocation found it
    dspPublish,         \* outcome of the last invocation's xSemaphoreTake
    \* configuration
    servoStart,         \* int servoStart
    servoEnd,           \* int servoEnd
    motionDelay,        \* int motionDelay
    wifiMode,           \* int wifiMode
    eeprom,             \* the persistent store: the ints at 0, 4 and 8 and the byte at 11
    restarted,          \* history: the program was started again after the last /set_servo
    saved,              \* history: the values the last /set_servo wrote (<< >>: none)
    diagPc              \* position of loop() in runFullSensorDiagnostic

vars == <<setupPc, systemReady, isBufferFull, timerSensorFlag, servoTriggered,
          sampleIndex, vReal, vImag, fftMutex, fftJsonData, gData,
          consecutiveErrors, servoPos, procPc, json, wrPos, fftTook, shtHumi,
          sgpNox, webPc, safeFFT, rdPos, payload,
          onBus, sinceSht, sinceSgp, sinceRetry, comp, begun, shtAddr, shtAcked,
          lastTick0, cycle, runsThisBuffer, published, vocOf, noxOf,
          recovery, sgpFailed, lastSht, bhRead, overrun, unserved,
          pendingTriggers,
          absorbed, dspPc, specBuf, smoothedBins, fftMags, dspRuns,
          zeroFed, rawBins, prevBins, dspPublish, servoStart, servoEnd,
          motionDelay,
          wifiMode, eeprom, restarted, saved, diagPc>>

\* Everything but the numeric pipeline on its own.
coreVars  == <<setupPc, systemReady, isBufferFull, timerSensorFlag,
               servoTriggered, sampleIndex, vReal, vImag, lastTick0, cycle,
               fftMutex, fftJsonData, published, json, wrPos, fftTook, gData,
               consecutiveErrors, shtHumi, sgpNox, vocOf, noxOf, onBus, begun, shtAddr, shtAcked,
               sinceSht, sinceSgp, sinceRetry, recovery, sgpFailed, comp,
               lastSht, bhRead, overrun, unserved, servoPos, procPc, webPc,
               safeFFT, rdPos, payload, runsThisBuffer, pendingTriggers, absorbed,
               servoStart, servoEnd, motionDelay, wifiMode, eeprom, restarted,
               saved, diagPc>>
coreVarsButDiag ==
             <<setupPc, systemReady, isBufferFull, timerSensorFlag,
               servoTriggered, sampleIndex, vReal, vImag, lastTick0, cycle,
               fftMutex, fftJsonData, published, json, wrPos, fftTook, gData,
               consecutiveErrors, shtHumi, sgpNox, vocOf, noxOf, onBus, begun, shtAddr, shtAcked,
               sinceSht, sinceSgp, sinceRetry, recovery, sgpFailed, comp,
               lastSht, bhRead, overrun, unserved, servoPos, procPc, webPc,
               safeFFT, rdPos, payload, runsThisBuffer, pendingTriggers, absorbed,
               servoStart, servoEnd, motionDelay, wifiMode, eeprom, restarted,
               saved>>
dspVars   == <<dspPc, specBuf, smoothedBins, fftMags, dspRuns, zeroFed,
               rawBins, prevBins, dspPublish>>
cfgVars   == <<servoStart, servoEnd, motionDelay, wifiMode, eeprom, restarted,
               saved>>
isrVars   == <<sampleIndex, vReal, vImag, lastTick0, cycle>>
setupVars == <<setupPc, systemReady>>
fftShared == <<fftMutex, fftJsonData, published>>
fftLocal  == <<json, wrPos, fftTook>>
timeVars  == <<sinceSht, sinceSgp, sinceRetry>>
acqHist   == <<recovery, sgpFailed, comp, lastSht, bhRead, overrun, unserved>>
acqVars   == <<gData, consecutiveErrors, shtHumi, sgpNox, vocOf, noxOf, onBus,
               begun, shtAddr, shtAcked, timeVars, acqHist>>
webVars   == <<webPc, safeFFT, rdPos, payload>>

Idx == 0 .. (FFT_SAMPLES - 1)
Bands == 1 .. NUM_BANDS
DspIdx == 0 .. (DSP_SAMPLES - 1)
DspBands == 1 .. DSP_BANDS

\* A buffer entry: where its value comes from and the value.
\*   "init": static zero initialisation, "adc": a sample stored by onTimer0,
\*   "zero": the 0 stored by onTimer0 as imaginary part,
\*   "dc": a sample minus the mean (scaled by FFT_SAMPLES to stay integral),
\*   "fft": output of the in-place transform (value not modelled).
Entry(s, v) == [src |-> s, val |-> v]

\* Default values of struct SensorData.
InitData == [temp |-> DEFAULT_TEMP, humi |-> DEFAULT_HUMI, lux |-> 0,
             voc |-> 0, nox |-> 0, srawVoc |-> 0, srawNox |-> 0,
             hasBH |-> FALSE, hasSGP |-> FALSE, hasSHT |-> FALSE]

\* String fftJsonData = "[]": the empty array.
EmptyJson == << >>

\* No gas read in progress, no thermal/humidity pair delivered yet.
NoPair == << >>

NoPayload == [temp |-> 0, humi |-> 0, lux |-> 0, voc |-> 0, nox |-> 0,
              srawVoc |-> 0, srawNox |-> 0, vocOf |-> 0, noxOf |-> 0,
              c2 |-> FALSE, c3 |-> FALSE]

\* An erased store: every byte is 0xFF.
BlankEeprom == (0 :> -1) @@ (4 :> -1) @@ (8 :> 16777215) @@ (11 :> 255)

\* The program's variables as a reset leaves them (the store and the bus are
\* outside the program).
Reset ==
    /\ setupPc = "config"
    /\ systemReady = FALSE
    /\ isBufferFull = FALSE
    /\ timerSensorFlag = FALSE
    /\ servoTriggered = FALSE
    /\ sampleIndex = 0
    /\ vReal = [i \in Idx |-> Entry("init", 0)]
    /\ vImag = [i \in Idx |-> Entry("init", 0)]
    /\ fftMutex = "free"
    /\ fftJsonData = EmptyJson
    /\ gData = InitData
    /\ consecutiveErrors = 0
    /\ servoPos = "none"
    /\ procPc = "none"
    /\ json = EmptyJson
    /\ wrPos = 0
    /\ fftTook = FALSE
    /\ shtHumi = 0
    /\ sgpNox = 0
    /\ webPc = "down"
    /\ safeFFT = EmptyJson
    /\ rdPos = 0
    /\ payload = NoPayload
    /\ lastTick0 = "none"
    /\ cycle = 0
    /\ runsThisBuffer = 0
    /\ published = EmptyJson
    /\ vocOf = 0
    /\ noxOf = 0
    /\ sinceSht = 0
    /\ sinceSgp = 0
    /\ sinceRetry = 0
    /\ comp = NoPair
    /\ recovery = "none"
    /\ sgpFailed = FALSE
    /\ lastSht = NoPair
    /\ bhRead = "none"
    /\ overrun = FALSE
    /\ unserved = FALSE
    /\ pendingTriggers = 0
    /\ absorbed = 0
    /\ dspPc = "idle"
    /\ specBuf = [i \in DspIdx |-> Entry("init", 0)]
    /\ smoothedBins = [b \in DspBands |-> 0]
    /\ fftMags = << >>
    /\ dspRuns = 0
    /\ zeroFed = FALSE
    /\ rawBins = [b \in DspBands |-> 0]
    /\ prevBins = [b \in DspBands |-> 0]
    /\ dspPublish = "none"
    /\ begun = {}
    /\ shtAddr = 0
    /\ shtAcked = {}
    /\ servoStart = 0
    /\ servoEnd = 0
    /\ motionDelay = 0
    /\ wifiMode = 0
    /\ diagPc = "idle"

Init ==
    /\ Reset
    /\ onBus = {}
    /\ eeprom = BlankEeprom
    /\ restarted = FALSE
    /\ saved = << >>

(* ---------------------------- environment ----------------------------- *)
\* checkI2CConnection(address): the device acknowledges its address.
Probe(dev) == dev \in onBus

\* The presence flag of a device class.
Has(dev) ==
    CASE dev = "bh"  -> gData.hasBH
      [] dev = "sht" -> gData.hasSHT
      [] dev = "sgp" -> gData.hasSGP

\* A device is connected to the bus (at any time, before or after start-up).
Attach(dev) ==
    /\ dev \notin onBus
    /\ onBus' = onBus \cup {dev}
    /\ UNCHANGED <<setupVars, isBufferFull, timerSensorFlag, servoTriggered,
                   isrVars, fftShared, fftLocal, gData, consecutiveErrors,
                   shtHumi, sgpNox, vocOf, noxOf, begun, shtAddr, shtAcked, timeVars, acqHist,
                   servoPos, procPc, webVars, runsThisBuffer,
                   pendingTriggers, absorbed, dspVars, cfgVars,
                   diagPc>>

\* Elapsed time, capped at the period it is compared with.
Elapse(since, period) == IF since < period THEN since + 1 ELSE period

\* millis() advances by one clock step.
Clock ==
    /\ sinceSht < SHT_PERIOD \/ sinceSgp < SGP_PERIOD \/ sinceRetry < RETRY_PERIOD
    /\ sinceSht' = Elapse(sinceSht, SHT_PERIOD)
    /\ sinceSgp' = Elapse(sinceSgp, SGP_PERIOD)
    /\ sinceRetry' = Elapse(sinceRetry, RETRY_PERIOD)
    /\ UNCHANGED <<setupVars, isBufferFull, timerSensorFlag, servoTriggered,
                   isrVars, fftShared, fftLocal, gData, consecutiveErrors,
                   shtHumi, sgpNox, vocOf, noxOf, onBus, begun, shtAddr, shtAcked, acqHist, servoPos,
                   procPc, webVars, runsThisBuffer,
                   pendingTriggers, absorbed, dspVars, cfgVars,
                   diagPc>>

(* ------------------------------ setup() ------------------------------- *)
\* setup() up to the defaults: wifiMode = EEPROM.read(11), STA when above 1;
\* the servo values are not read from the store, and are replaced by the
\* defaults when servoStart is outside 500..2500.
LoadConfig ==
    /\ setupPc = "config"
    /\ wifiMode' = IF eeprom[11] > 1 THEN 0 ELSE eeprom[11]
    /\ IF servoStart < 500 \/ servoStart > 2500
          THEN /\ servoStart' = 1500
               /\ servoEnd' = 1800
               /\ motionDelay' = 200
          ELSE UNCHANGED <<servoStart, servoEnd, motionDelay>>
    /\ setupPc' = "sensors"
    /\ UNCHANGED <<systemReady, isBufferFull, timerSensorFlag, servoTriggered,
                   isrVars, fftShared, fftLocal, acqVars, servoPos, procPc,
                   webVars, runsThisBuffer, pendingTriggers, absorbed, dspVars,
                   eeprom, restarted, saved, diagPc>>

\* The drivers initSensors() starts: lightMeter.begin() and sht4x.begin() when
\* the probe succeeded, sgp41.begin() when hasSGP is already set.

\* The two addresses of the thermal/humidity sensor (0x44, 0x45).
SHT_ADDR_A == 68
SHT_ADDR_B == 69

\* gData.hasSHT = checkI2CConnection(0x44) || checkI2CConnection(0x45);
\* uint8_t addr = checkI2CConnection(0x44) ? 0x44 : 0x45;
\* at44 and at45 are the outcomes of the two probes of the first line (the
\* second runs only when the first fails), again44 the outcome of the
\* probe of the second line: each call is a bus transaction of its own.
InitAddr(again44) == IF again44 THEN SHT_ADDR_A ELSE SHT_ADDR_B
InitAcked(at44, at45, again44) ==
    {a \in {SHT_ADDR_A} : at44 \/ again44}
       \cup {a \in {SHT_ADDR_B} : ~at44 /\ at45}

\* uint8_t addr = checkI2CConnection(0x44) ? 0x44
\*                   : (checkI2CConnection(0x45) ? 0x45 : 0);
RetryAddr(at44, at45) ==
    IF at44 THEN SHT_ADDR_A ELSE IF at45 THEN SHT_ADDR_B ELSE 0
RetryAcked(at44, at45) ==
    {a \in {SHT_ADDR_A} : at44} \cup {a \in {SHT_ADDR_B} : ~at44 /\ at45}

InitBeginsMut == {d \in Devices : Probe(d)}
InitBegins == {d \in {"bh", "sht"} : Probe(d)} \cup {d \in {"sgp"} : gData.hasSGP}

\* initSensors(): probes the light sensor and the thermal/humidity sensor;
\* the gas sensor's flag is tested but never set here.
InitSensors ==
    /\ setupPc = "sensors"
    /\ gData' = [gData EXCEPT !.hasBH = Probe("bh"), !.hasSHT = Probe("sht")]
    /\ begun' = InitBegins
    /\ IF "sht" \in InitBegins
       THEN \E at44, at45, again44 \in BOOLEAN :
               /\ at44 \/ at45
               /\ shtAddr' = InitAddr(again44)
               /\ shtAcked' = InitAcked(at44, at45, again44)
       ELSE UNCHANGED <<shtAddr, shtAcked>>
    /\ servoPos' = "start"
    /\ setupPc' = "web"
    /\ UNCHANGED <<systemReady, isBufferFull, timerSensorFlag, servoTriggered,
                   isrVars, fftShared, fftLocal, consecutiveErrors, shtHumi,
                   sgpNox, vocOf, noxOf, onBus, timeVars, acqHist, procPc,
                   webVars, runsThisBuffer,
                   pendingTriggers, absorbed, dspVars, cfgVars,
                   diagPc>>

\* setupWebServer(): server.begin() -- from here on requests are served.
\* initSensors has returned: the outcomes of its probes are gone.
SetupWebServer ==
    /\ setupPc = "web"
    /\ setupPc' = "task"
    /\ webPc' = "idle"
    /\ shtAcked' = {}
    /\ UNCHANGED <<systemReady, isBufferFull, timerSensorFlag, servoTriggered,
                   isrVars, fftShared, fftLocal, gData, consecutiveErrors,
                   shtHumi, sgpNox, vocOf, noxOf, onBus, begun, shtAddr,
                   timeVars, acqHist, servoPos, procPc,
                   safeFFT, rdPos, payload, runsThisBuffer,
                   pendingTriggers, absorbed, dspVars, cfgVars,
                   diagPc>>

\* xTaskCreatePinnedToCore(processingTask, ...): the task starts its loop.
CreateTask ==
    /\ setupPc = "task"
    /\ setupPc' = "ready"
    /\ procPc' = "loop"
    /\ UNCHANGED <<systemReady, isBufferFull, timerSensorFlag, servoTriggered,
                   isrVars, fftShared, fftLocal, acqVars, servoPos, webVars,
                   runsThisBuffer,
                   pendingTriggers, absorbed, dspVars, cfgVars,
                   diagPc>>

\* systemReady = true
SetReady ==
    /\ setupPc = "ready"
    /\ setupPc' = "timers"
    /\ systemReady' = TRUE
    /\ UNCHANGED <<isBufferFull, timerSensorFlag, servoTriggered, isrVars,
                   fftShared, fftLocal, acqVars, servoPos, procPc, webVars,
                   runsThisBuffer,
                   pendingTriggers, absorbed, dspVars, cfgVars,
                   diagPc>>

\* setupTimers(): both alarms are armed; ticks arrive from here on.
SetupTimers ==
    /\ setupPc = "timers"
    /\ setupPc' = "done"
    /\ UNCHANGED <<systemReady, isBufferFull, timerSensorFlag, servoTriggered,
                   isrVars, fftShared, fftLocal, acqVars, servoPos, procPc,
                   webVars, runsThisBuffer,
                   pendingTriggers, absorbed, dspVars, cfgVars,
                   diagPc>>

TimersArmed == setupPc = "done"

(* ------------------------ Timer-0 ISR: onTimer0 ----------------------- *)
\* if (!isBufferFull)
CanStoreMut == TRUE
CanStore == ~isBufferFull

\* if (sampleIndex >= Config::FFT_SAMPLES)
WrappedMut(i) == i > FFT_SAMPLES
Wrapped(i) == i >= FFT_SAMPLES

NextTag(c) == (c % CycleTags) + 1

Timer0 ==
    /\ TimersArmed
    /\ IF ~systemReady
       THEN /\ lastTick0' = "notready"
            /\ UNCHANGED <<sampleIndex, vReal, vImag, isBufferFull, cycle,
                           runsThisBuffer>>
       ELSE IF CanStore
       THEN \E s \in Samples :
            /\ vReal' = [vReal EXCEPT ![sampleIndex] = Entry("adc", s)]
            /\ vImag' = [vImag EXCEPT ![sampleIndex] = Entry("zero", 0)]
            /\ IF Wrapped(sampleIndex + 1)
               THEN /\ sampleIndex' = 0
                    /\ isBufferFull' = TRUE
                    /\ lastTick0' = "fill"
                    /\ cycle' = NextTag(cycle)
                    /\ runsThisBuffer' = 0
               ELSE /\ sampleIndex' = sampleIndex + 1
                    /\ lastTick0' = "store"
                    /\ UNCHANGED <<isBufferFull, cycle, runsThisBuffer>>
       ELSE /\ lastTick0' = "drop"
            /\ UNCHANGED <<sampleIndex, vReal, vImag, isBufferFull, cycle,
                           runsThisBuffer>>
    /\ UNCHANGED <<setupVars, timerSensorFlag, servoTriggered, fftShared,
                   fftLocal, acqVars, servoPos, procPc, webVars,
                   pendingTriggers, absorbed, dspVars, cfgVars,
                   diagPc>>

(* ------------------------ Timer-1 ISR: onTimer1 ----------------------- *)
Timer1 ==
    /\ TimersArmed
    /\ timerSensorFlag' = IF ~systemReady THEN timerSensorFlag ELSE TRUE
    /\ overrun' = IF systemReady /\ timerSensorFlag THEN TRUE ELSE overrun
    /\ unserved' = IF systemReady THEN TRUE ELSE unserved
    /\ UNCHANGED <<setupVars, isBufferFull, servoTriggered, isrVars, fftShared,
                   fftLocal, gData, consecutiveErrors, shtHumi, sgpNox, vocOf,
                   noxOf, onBus, begun, shtAddr, shtAcked, timeVars, recovery, sgpFailed, comp,
                   lastSht, bhRead, servoPos, procPc, webVars,
                   runsThisBuffer,
                   pendingTriggers, absorbed, dspVars, cfgVars,
                   diagPc>>

(* -------------------- spectral pipeline: processFFTLogic ---------------- *)
RECURSIVE SumVals(_, _)
\* for (i...) sum += vReal[i]
SumVals(buf, n) == IF n = 0 THEN 0 ELSE buf[n - 1].val + SumVals(buf, n - 1)

\* vReal[i] -= mean, with mean = sum / FFT_SAMPLES; values are kept scaled by
\* the buffer length so that the subtraction is exact on integers (the
\* mutant subtracts nothing).
RemoveDCMut(buf) ==
    [i \in DOMAIN buf |-> Entry("dc", Cardinality(DOMAIN buf) * buf[i].val)]
RemoveDC(buf) ==
    LET n == Cardinality(DOMAIN buf)
    IN  [i \in DOMAIN buf |-> Entry("dc", n * buf[i].val - SumVals(buf, n))]

\* (int)(i * (SAMPLING_FREQ / 2 / 32)) for the band with index i
BandFreq(i) == (i * SAMPLING_FREQ) \div (2 * NUM_BANDS)

\* The serialised spectrum: one {freq, mag} object per band (the mutant
\* drops the last band).  cyc tags the buffer the spectrum was computed from.
BuildJsonMut(mags, c) ==
    [b \in 1 .. (NUM_BANDS - 1) |-> [freq |-> BandFreq(b - 1), mag |-> mags[b], cyc |-> c]]
BuildJson(mags, c) ==
    [b \in Bands |-> [freq |-> BandFreq(b - 1), mag |-> mags[b], cyc |-> c]]

\* xSemaphoreTake succeeds when nobody holds the mutex.
MutexFreeMut(holder) == TRUE
MutexFree(holder) == holder = "free"

\* if (isBufferFull) processFFTLogic();
ShouldRunFFTMut == TRUE
ShouldRunFFT == isBufferFull

\* isBufferFull = false;  (the mutant forgets to clear the flag)
FlagAfterPipelineMut == isBufferFull
FlagAfterPipeline == FALSE

\* The assignment fftJsonData = json after k of its entries have been copied
\* (the mutant stops one entry short).
PartialCopyMut(new, old, k) ==
    SubSeq(new, 1, k - 1) \o SubSeq(old, k, Len(old))
PartialCopy(new, old, k) ==
    SubSeq(new, 1, k) \o SubSeq(old, k + 1, Len(old))

\* while (1) { if (isBufferFull) ...
LoopCheckFFT ==
    /\ procPc = "loop"
    /\ IF ShouldRunFFT
       THEN /\ procPc' = "fft_dc"
            /\ runsThisBuffer' = IF runsThisBuffer < 2 THEN runsThisBuffer + 1 ELSE 2
       ELSE /\ procPc' = "chk_sensor"
            /\ UNCHANGED runsThisBuffer
    /\ UNCHANGED <<setupVars, isBufferFull, timerSensorFlag, servoTriggered,
                   isrVars, fftShared, fftLocal, acqVars, servoPos, webVars,
                   pendingTriggers, absorbed, dspVars, cfgVars,
                   diagPc>>

\* 1. DC removal
FFTDc ==
    /\ procPc = "fft_dc"
    /\ vReal' = RemoveDC(vReal)
    /\ procPc' = "fft_xform"
    /\ UNCHANGED <<setupVars, isBufferFull, timerSensorFlag, servoTriggered,
                   sampleIndex, vImag, lastTick0, cycle, fftShared, fftLocal,
                   acqVars, servoPos, webVars, runsThisBuffer,
                   pendingTriggers, absorbed, dspVars, cfgVars,
                   diagPc>>

\* 2. windowing, compute, complexToMagnitude: in place on vReal and vImag
FFTXform ==
    /\ procPc = "fft_xform"
    /\ vReal' = [i \in Idx |-> Entry("fft", 0)]
    /\ vImag' = [i \in Idx |-> Entry("fft", 0)]
    /\ procPc' = "fft_bands"
    /\ UNCHANGED <<setupVars, isBufferFull, timerSensorFlag, servoTriggered,
                   sampleIndex, lastTick0, cycle, fftShared, fftLocal, acqVars,
                   servoPos, webVars, runsThisBuffer,
                   pendingTriggers, absorbed, dspVars, cfgVars,
                   diagPc>>

\* 3. band reduction, smoothing, floor cut-off and serialisation into json.
\* The band magnitudes depend on the analog input through the transform and
\* are drawn from FinalMags.
FFTBands ==
    /\ procPc = "fft_bands"
    /\ \E mags \in [Bands -> FinalMags] : json' = BuildJson(mags, cycle)
    /\ procPc' = "fft_take"
    /\ UNCHANGED <<setupVars, isBufferFull, timerSensorFlag, servoTriggered,
                   isrVars, fftShared, wrPos, fftTook, acqVars, servoPos,
                   webVars, runsThisBuffer,
                   pendingTriggers, absorbed, dspVars, cfgVars,
                   diagPc>>

\* if (xSemaphoreTake(fftMutex, 10 ms) == pdTRUE)
FFTTake ==
    /\ procPc = "fft_take"
    /\ MutexFree(fftMutex)
    /\ fftMutex' = "proc"
    /\ published' = fftJsonData
    /\ fftTook' = TRUE
    /\ wrPos' = 0
    /\ procPc' = "fft_write"
    /\ UNCHANGED <<setupVars, isBufferFull, timerSensorFlag, servoTriggered,
                   isrVars, fftJsonData, json, acqVars, servoPos, webVars,
                   runsThisBuffer,
                   pendingTriggers, absorbed, dspVars, cfgVars,
                   diagPc>>

\* the take times out: the mutex stayed held for 10 ms; the publish is skipped
FFTTakeTimeout ==
    /\ procPc = "fft_take"
    /\ ~MutexFree(fftMutex)
    /\ fftTook' = FALSE
    /\ procPc' = "fft_clear"
    /\ UNCHANGED <<setupVars, isBufferFull, timerSensorFlag, servoTriggered,
                   isrVars, fftShared, json, wrPos, acqVars,
                   servoPos, webVars, runsThisBuffer,
                   pendingTriggers, absorbed, dspVars, cfgVars,
                   diagPc>>

\* fftJsonData = json;  copied entry by entry
FFTWrite ==
    /\ procPc = "fft_write"
    /\ wrPos' = wrPos + 1
    /\ fftJsonData' = PartialCopy(json, published, wrPos + 1)
    /\ procPc' = IF wrPos + 1 >= Len(json) THEN "fft_give" ELSE "fft_write"
    /\ UNCHANGED <<setupVars, isBufferFull, timerSensorFlag, servoTriggered,
                   isrVars, fftMutex, published, json, fftTook, acqVars,
                   servoPos, webVars, runsThisBuffer,
                   pendingTriggers, absorbed, dspVars, cfgVars,
                   diagPc>>

\* xSemaphoreGive(fftMutex)
FFTGive ==
    /\ procPc = "fft_give"
    /\ fftMutex' = "free"
    /\ published' = fftJsonData
    /\ procPc' = "fft_clear"
    /\ UNCHANGED <<setupVars, isBufferFull, timerSensorFlag, servoTriggered,
                   isrVars, fftJsonData, fftLocal, acqVars, servoPos, webVars,
                   runsThisBuffer,
                   pendingTriggers, absorbed, dspVars, cfgVars,
                   diagPc>>

\* isBufferFull = false;  and return to the loop
FFTClear ==
    /\ procPc = "fft_clear"
    /\ isBufferFull' = FlagAfterPipeline
    /\ procPc' = "chk_sensor"
    /\ UNCHANGED <<setupVars, timerSensorFlag, servoTriggered, isrVars,
                   fftShared, fftLocal, acqVars, servoPos, webVars,
                   runsThisBuffer,
                   pendingTriggers, absorbed, dspVars, cfgVars,
                   diagPc>>

(* -------------------- acquisition pass: updateSensorData ---------------- *)
\* if (timerSensorFlag) updateSensorData();
ShouldRunSensorsMut == TRUE
ShouldRunSensors == timerSensorFlag

LoopCheckSensor ==
    /\ procPc = "chk_sensor"
    /\ procPc' = IF ShouldRunSensors THEN "sht" ELSE "servo"
    /\ unserved' = IF ShouldRunSensors THEN FALSE ELSE unserved
    /\ UNCHANGED <<setupVars, isBufferFull, timerSensorFlag, servoTriggered,
                   isrVars, fftShared, fftLocal, gData, consecutiveErrors,
                   shtHumi, sgpNox, vocOf, noxOf, onBus, begun, shtAddr, shtAcked, timeVars,
                   recovery, sgpFailed, comp, lastSht, bhRead, overrun,
                   servoPos, webVars, runsThisBuffer,
                   pendingTriggers, absorbed, dspVars, cfgVars,
                   diagPc>>

\* millis() - shtTick >= 2000
ShtDueMut == TRUE
ShtDue == sinceSht >= SHT_PERIOD

\* millis() - sgpTick >= 1000
SgpDue == sinceSgp >= SGP_PERIOD

\* millis() - retryTick >= 10000
RetryDue == sinceRetry >= RETRY_PERIOD

\* 1. SHT4x. The read is skipped when the sensor is not marked present or
\* its period has not elapsed. A failed measurement stores nothing and
\* counts an error; a successful one stores the temperature, then (next
\* step) the humidity. shtTick = millis() in both cases.
ShtSkip ==
    /\ procPc = "sht"
    /\ ~(gData.hasSHT /\ ShtDue)
    /\ procPc' = "sgp"
    /\ UNCHANGED <<setupVars, isBufferFull, timerSensorFlag, servoTriggered,
                   isrVars, fftShared, fftLocal, acqVars, servoPos, webVars,
                   runsThisBuffer,
                   pendingTriggers, absorbed, dspVars, cfgVars,
                   diagPc>>

ShtError ==
    /\ procPc = "sht"
    /\ gData.hasSHT /\ ShtDue
    /\ sinceSht' = 0
    /\ consecutiveErrors' = consecutiveErrors + 1
    /\ procPc' = "sgp"
    /\ UNCHANGED <<setupVars, isBufferFull, timerSensorFlag, servoTriggered,
                   isrVars, fftShared, fftLocal, gData, shtHumi, sgpNox, vocOf,
                   noxOf, onBus, begun, shtAddr, shtAcked, sinceSgp, sinceRetry, acqHist, servoPos,
                   webVars, runsThisBuffer,
                   pendingTriggers, absorbed, dspVars, cfgVars,
                   diagPc>>

ShtStoreTemp ==
    /\ procPc = "sht"
    /\ gData.hasSHT /\ ShtDue
    /\ sinceSht' = 0
    /\ \E p \in ShtPairs :
          /\ gData' = [gData EXCEPT !.temp = p[1]]
          /\ shtHumi' = p[2]
    /\ procPc' = "sht_h"
    /\ UNCHANGED <<setupVars, isBufferFull, timerSensorFlag, servoTriggered,
                   isrVars, fftShared, fftLocal, consecutiveErrors, sgpNox,
                   vocOf, noxOf, onBus, begun, shtAddr, shtAcked, sinceSgp, sinceRetry, acqHist,
                   servoPos, webVars, runsThisBuffer,
                   pendingTriggers, absorbed, dspVars, cfgVars,
                   diagPc>>

ShtStoreHumi ==
    /\ procPc = "sht_h"
    /\ gData' = [gData EXCEPT !.humi = shtHumi]
    /\ lastSht' = <<gData.temp, shtHumi>>
    /\ shtHumi' = 0
    /\ consecutiveErrors' = 0
    /\ procPc' = "sgp"
    /\ UNCHANGED <<setupVars, isBufferFull, timerSensorFlag, servoTriggered,
                   isrVars, fftShared, fftLocal, sgpNox, vocOf, noxOf, onBus,
                   begun, shtAddr, shtAcked, timeVars, recovery, sgpFailed, comp, bhRead,
                   servoPos, webVars, runsThisBuffer,
                   overrun, unserved,
                   pendingTriggers, absorbed, dspVars, cfgVars,
                   diagPc>>

\* float compT = gData.hasSHT ? gData.temp : 25.0;
\* float compH = gData.hasSHT ? gData.humi : 50.0;
CompPairMut == <<gData.temp, 0>>
CompPair ==
    <<IF gData.hasSHT THEN gData.temp ELSE DEFAULT_TEMP,
      IF gData.hasSHT THEN gData.humi ELSE DEFAULT_HUMI>>

\* 2. SGP41. Skipped when not marked present or before its period has
\* elapsed; sgpTick = millis() otherwise. The result of measureRawSignals is
\* not tested: after a failed read the index computation still runs on the
\* raw values in gData.
SgpSkip ==
    /\ procPc = "sgp"
    /\ ~(gData.hasSGP /\ SgpDue)
    /\ procPc' = "bh"
    /\ UNCHANGED <<setupVars, isBufferFull, timerSensorFlag, servoTriggered,
                   isrVars, fftShared, fftLocal, acqVars, servoPos, webVars,
                   runsThisBuffer,
                   pendingTriggers, absorbed, dspVars, cfgVars,
                   diagPc>>

SgpError ==
    /\ procPc = "sgp"
    /\ gData.hasSGP /\ SgpDue
    /\ sinceSgp' = 0
    /\ comp' = CompPair
    /\ sgpFailed' = TRUE
    /\ procPc' = "sgp_voc"
    /\ UNCHANGED <<setupVars, isBufferFull, timerSensorFlag, servoTriggered,
                   isrVars, fftShared, fftLocal, gData, consecutiveErrors,
                   shtHumi, sgpNox, vocOf, noxOf, onBus, begun, shtAddr, shtAcked, sinceSht,
                   sinceRetry, recovery, lastSht, bhRead, servoPos, webVars,
                   runsThisBuffer,
                   overrun, unserved,
                   pendingTriggers, absorbed, dspVars, cfgVars,
                   diagPc>>

SgpStoreVoc ==
    /\ procPc = "sgp"
    /\ gData.hasSGP /\ SgpDue
    /\ sinceSgp' = 0
    /\ comp' = CompPair
    /\ sgpFailed' = FALSE
    /\ \E p \in SgpPairs :
          /\ gData' = [gData EXCEPT !.srawVoc = p[1]]
          /\ sgpNox' = p[2]
    /\ procPc' = "sgp_n"
    /\ UNCHANGED <<setupVars, isBufferFull, timerSensorFlag, servoTriggered,
                   isrVars, fftShared, fftLocal, consecutiveErrors, shtHumi,
                   vocOf, noxOf, onBus, begun, shtAddr, shtAcked, sinceSht, sinceRetry, recovery,
                   lastSht, bhRead, servoPos, webVars, runsThisBuffer,
                   overrun, unserved,
                   pendingTriggers, absorbed, dspVars, cfgVars,
                   diagPc>>

SgpStoreNox ==
    /\ procPc = "sgp_n"
    /\ gData' = [gData EXCEPT !.srawNox = sgpNox]
    /\ sgpNox' = 0
    /\ procPc' = "sgp_voc"
    /\ UNCHANGED <<setupVars, isBufferFull, timerSensorFlag, servoTriggered,
                   isrVars, fftShared, fftLocal, consecutiveErrors, shtHumi,
                   vocOf, noxOf, onBus, begun, shtAddr, shtAcked, timeVars, acqHist, servoPos, webVars,
                   runsThisBuffer,
                   pendingTriggers, absorbed, dspVars, cfgVars,
                   diagPc>>

\* if (gData.srawVoc > 0) gData.voc = voc_algorithm.process(gData.srawVoc);
SgpVocIndex ==
    /\ procPc = "sgp_voc"
    /\ IF gData.srawVoc > 0
       THEN \E v \in VocIndexVals :
               /\ gData' = [gData EXCEPT !.voc = v]
               /\ vocOf' = gData.srawVoc
       ELSE UNCHANGED <<gData, vocOf>>
    /\ procPc' = "sgp_nox"
    /\ UNCHANGED <<setupVars, isBufferFull, timerSensorFlag, servoTriggered,
                   isrVars, fftShared, fftLocal, consecutiveErrors, shtHumi,
                   sgpNox, noxOf, onBus, begun, shtAddr, shtAcked, timeVars, acqHist, servoPos, webVars,
                   runsThisBuffer,
                   pendingTriggers, absorbed, dspVars, cfgVars,
                   diagPc>>

\* if (gData.srawNox > 0) gData.nox = nox_algorithm.process(gData.srawNox);
SgpNoxIndex ==
    /\ procPc = "sgp_nox"
    /\ IF gData.srawNox > 0
       THEN \E v \in NoxIndexVals :
               /\ gData' = [gData EXCEPT !.nox = v]
               /\ noxOf' = gData.srawNox
       ELSE UNCHANGED <<gData, noxOf>>
    /\ comp' = NoPair
    /\ sgpFailed' = FALSE
    /\ procPc' = "bh"
    /\ UNCHANGED <<setupVars, isBufferFull, timerSensorFlag, servoTriggered,
                   isrVars, fftShared, fftLocal, consecutiveErrors, shtHumi,
                   sgpNox, vocOf, onBus, begun, shtAddr, shtAcked, timeVars, recovery, lastSht,
                   bhRead, servoPos, webVars, runsThisBuffer,
                   overrun, unserved,
                   pendingTriggers, absorbed, dspVars, cfgVars,
                   diagPc>>

\* 3. BH1750: read on every pass while present; a negative value is dropped.
BhRead ==
    /\ procPc = "bh"
    /\ IF gData.hasBH
       THEN \E rawL \in LuxVals :
               /\ gData' = IF rawL >= 0 THEN [gData EXCEPT !.lux = rawL] ELSE gData
               /\ bhRead' = IF rawL >= 0 THEN "ok" ELSE "failed"
       ELSE UNCHANGED gData /\ bhRead' = "absent"
    /\ procPc' = "recover"
    /\ UNCHANGED <<setupVars, isBufferFull, timerSensorFlag, servoTriggered,
                   isrVars, fftShared, fftLocal, consecutiveErrors, shtHumi,
                   sgpNox, vocOf, noxOf, onBus, begun, shtAddr, shtAcked, timeVars, recovery,
                   sgpFailed, comp, lastSht, servoPos, webVars, runsThisBuffer,
                   overrun, unserved,
                   pendingTriggers, absorbed, dspVars, cfgVars,
                   diagPc>>

\* if (consecutiveErrors > 20)
BusFrozenMut == consecutiveErrors >= BUS_ERROR_LIMIT
BusFrozen == consecutiveErrors > BUS_ERROR_LIMIT

\* consecutiveErrors = 0;  (the mutant forgets the reset)
CounterAfterRecoveryMut == consecutiveErrors
CounterAfterRecovery == 0

\* recoverI2CBus(): pin and bus-driver calls only, gData is not written (the
\* mutant marks the thermal/humidity sensor absent).
RecoveredMut(g) == [g EXCEPT !.hasSHT = FALSE]
Recovered(g) == g

\* if (consecutiveErrors > 20) { recoverI2CBus(); consecutiveErrors = 0; }
\* recoverI2CBus toggles the clock line and restarts the bus driver; it
\* writes no program variable.
\* History: "fired" when the check ran the recovery, "after" for the check
\* of the pass that follows a recovery, "quiet" otherwise.
BusRecovery ==
    /\ procPc = "recover"
    /\ consecutiveErrors' =
          IF BusFrozen THEN CounterAfterRecovery ELSE consecutiveErrors
    /\ gData' = IF BusFrozen THEN Recovered(gData) ELSE gData
    /\ recovery' = IF BusFrozen THEN "fired"
                   ELSE IF recovery = "fired" THEN "after" ELSE "quiet"
    /\ procPc' = "retry"
    /\ UNCHANGED <<setupVars, isBufferFull, timerSensorFlag, servoTriggered,
                   isrVars, fftShared, fftLocal, shtHumi, sgpNox, vocOf, noxOf,
                   onBus, begun, shtAddr, shtAcked, timeVars, sgpFailed, comp, lastSht, bhRead,
                   servoPos, webVars, runsThisBuffer,
                   overrun, unserved,
                   pendingTriggers, absorbed, dspVars, cfgVars,
                   diagPc>>

\* if ((!gData.hasSGP || !gData.hasSHT) && (millis() - retryTick >= 10000))
ShouldRetry == (~gData.hasSGP \/ ~gData.hasSHT) /\ RetryDue

\* if (!gData.hasSGP) ..., if (!gData.hasSHT) ...: the sensors the retry
\* probes (the mutant probes both whatever their flags), and those whose
\* driver it starts: the ones that answer.
RetryProbedMut == {"sgp", "sht"}
RetryProbed == {d \in {"sgp", "sht"} : ~Has(d)}
RetryBegins == {d \in RetryProbed : Probe(d)}

\* 4. reconnection: when the gas or the thermal/humidity sensor is not
\* marked present and the retry period has elapsed, those of the two that
\* are not marked present are probed again; retryTick = millis().
RetrySkip ==
    /\ procPc = "retry"
    /\ ~ShouldRetry
    /\ procPc' = "sens_done"
    /\ UNCHANGED <<setupVars, isBufferFull, timerSensorFlag, servoTriggered,
                   isrVars, fftShared, fftLocal, acqVars, servoPos, webVars,
                   runsThisBuffer,
                   pendingTriggers, absorbed, dspVars, cfgVars,
                   diagPc>>

RetryProbe ==
    /\ procPc = "retry"
    /\ ShouldRetry
    /\ sinceRetry' = 0
    /\ gData' = [gData EXCEPT
                   !.hasSGP = IF "sgp" \in RetryProbed THEN Probe("sgp")
                                                        ELSE gData.hasSGP,
                   !.hasSHT = IF "sht" \in RetryProbed THEN Probe("sht")
                                                        ELSE gData.hasSHT]
    /\ begun' = begun \cup RetryBegins
    /\ IF "sht" \in RetryBegins
       THEN \E at44, at45 \in BOOLEAN :
               /\ at44 \/ at45
               /\ shtAddr' = RetryAddr(at44, at45)
               /\ shtAcked' = RetryAcked(at44, at45)
       ELSE UNCHANGED <<shtAddr, shtAcked>>
    /\ procPc' = "sens_done"
    /\ UNCHANGED <<setupVars, isBufferFull, timerSensorFlag, servoTriggered,
                   isrVars, fftShared, fftLocal, consecutiveErrors, shtHumi,
                   sgpNox, vocOf, noxOf, onBus, sinceSht, sinceSgp, acqHist,
                   servoPos, webVars, runsThisBuffer,
                   pendingTriggers, absorbed, dspVars, cfgVars,
                   diagPc>>

\* timerSensorFlag = false; updateSensorData returns and the outcomes of
\* the probes of its retry are gone.
SensorDone ==
    /\ procPc = "sens_done"
    /\ timerSensorFlag' = FALSE
    /\ bhRead' = "none"
    /\ overrun' = FALSE
    /\ shtAcked' = {}
    /\ procPc' = "servo"
    /\ UNCHANGED <<setupVars, isBufferFull, servoTriggered, isrVars, fftShared,
                   fftLocal, gData, consecutiveErrors, shtHumi, sgpNox, vocOf,
                   noxOf, onBus, begun, shtAddr, timeVars, recovery, sgpFailed,
                   comp,
                   lastSht, unserved, servoPos, webVars, runsThisBuffer,
                   pendingTriggers, absorbed, dspVars, cfgVars,
                   diagPc>>

(* ------------------------- servo sweep and delay ----------------------- *)
\* if (servoTriggered)
ShouldSweepMut == FALSE
ShouldSweep == servoTriggered

\* servoTriggered = false;  (the mutant leaves the flag as it is)
FlagAfterSweepMut == servoTriggered
FlagAfterSweep == FALSE

\* if (servoTriggered) { myservo.writeMicroseconds(servoEnd); vTaskDelay(...)
ServoCheck ==
    /\ procPc = "servo"
    /\ IF ShouldSweep
       THEN servoPos' = "end" /\ procPc' = "servo_hold"
       ELSE servoPos' = servoPos /\ procPc' = "delay"
    /\ UNCHANGED <<setupVars, isBufferFull, timerSensorFlag, servoTriggered,
                   isrVars, fftShared, fftLocal, acqVars, webVars,
                   runsThisBuffer,
                   pendingTriggers, absorbed, dspVars, cfgVars,
                   diagPc>>

\* myservo.writeMicroseconds(servoStart); servoTriggered = false; }
ServoReturn ==
    /\ procPc = "servo_hold"
    /\ servoPos' = "start"
    /\ servoTriggered' = FlagAfterSweep
    /\ pendingTriggers' = 0
    /\ absorbed' = pendingTriggers
    /\ procPc' = "delay"
    /\ UNCHANGED <<setupVars, isBufferFull, timerSensorFlag, isrVars, fftShared,
                   fftLocal, acqVars, webVars, runsThisBuffer, dspVars,
                   cfgVars, diagPc>>

\* vTaskDelay(20 / portTICK_PERIOD_MS); and back to the head of the loop
LoopDelay ==
    /\ procPc = "delay"
    /\ procPc' = "loop"
    /\ UNCHANGED <<setupVars, isBufferFull, timerSensorFlag, servoTriggered,
                   isrVars, fftShared, fftLocal, acqVars, servoPos, webVars,
                   runsThisBuffer,
                   pendingTriggers, absorbed, dspVars, cfgVars,
                   diagPc>>

(* ------------------------- HTTP handlers (web task) --------------------- *)
\* The asynchronous web server runs its handlers one at a time in its own
\* task, concurrently with the processing task and the ISRs.

\* String safeFFT = "[]";
SafeFFTDefaultMut == fftJsonData
SafeFFTDefault == EmptyJson

\* GET /fft arrives
WebFftBegin ==
    /\ webPc = "idle"
    /\ safeFFT' = SafeFFTDefault
    /\ webPc' = "f_take"
    /\ UNCHANGED <<setupVars, isBufferFull, timerSensorFlag, servoTriggered,
                   isrVars, fftShared, fftLocal, acqVars, servoPos, procPc,
                   rdPos, payload, runsThisBuffer,
                   pendingTriggers, absorbed, dspVars, cfgVars,
                   diagPc>>

\* if (xSemaphoreTake(fftMutex, 50 ms) == pdTRUE)
WebFftTake ==
    /\ webPc = "f_take"
    /\ MutexFree(fftMutex)
    /\ fftMutex' = "web"
    /\ rdPos' = 0
    /\ safeFFT' = EmptyJson
    /\ webPc' = "f_copy"
    /\ UNCHANGED <<setupVars, isBufferFull, timerSensorFlag, servoTriggered,
                   isrVars, fftJsonData, published, fftLocal, acqVars, servoPos,
                   procPc, payload, runsThisBuffer,
                   pendingTriggers, absorbed, dspVars, cfgVars,
                   diagPc>>

\* the take times out: the mutex stayed held for 50 ms
WebFftTimeout ==
    /\ webPc = "f_take"
    /\ ~MutexFree(fftMutex)
    /\ webPc' = "f_fail"
    /\ UNCHANGED <<setupVars, isBufferFull, timerSensorFlag, servoTriggered,
                   isrVars, fftShared, fftLocal, acqVars, servoPos, procPc,
                   safeFFT, rdPos, payload, runsThisBuffer,
                   pendingTriggers, absorbed, dspVars, cfgVars,
                   diagPc>>

\* safeFFT = fftJsonData;  copied entry by entry
WebFftCopy ==
    /\ webPc = "f_copy"
    /\ IF rdPos < Len(fftJsonData)
       THEN /\ safeFFT' = Append(safeFFT, fftJsonData[rdPos + 1])
            /\ rdPos' = rdPos + 1
            /\ webPc' = "f_copy"
       ELSE /\ webPc' = "f_give"
            /\ UNCHANGED <<safeFFT, rdPos>>
    /\ UNCHANGED <<setupVars, isBufferFull, timerSensorFlag, servoTriggered,
                   isrVars, fftShared, fftLocal, acqVars, servoPos, procPc,
                   payload, runsThisBuffer,
                   pendingTriggers, absorbed, dspVars, cfgVars,
                   diagPc>>

\* xSemaphoreGive(fftMutex)
WebFftGive ==
    /\ webPc = "f_give"
    /\ fftMutex' = "free"
    /\ webPc' = "f_send"
    /\ UNCHANGED <<setupVars, isBufferFull, timerSensorFlag, servoTriggered,
                   isrVars, fftJsonData, published, fftLocal, acqVars, servoPos,
                   procPc, safeFFT, rdPos, payload,
                   runsThisBuffer,
                   pendingTriggers, absorbed, dspVars, cfgVars,
                   diagPc>>

WebFftSendMut ==
    /\ webPc \in {"f_send", "f_fail"}
    /\ safeFFT' = EmptyJson
    /\ fftJsonData' = EmptyJson
    /\ rdPos' = 0
    /\ webPc' = "idle"
    /\ UNCHANGED <<setupVars, isBufferFull, timerSensorFlag, servoTriggered,
                   isrVars, fftMutex, published, fftLocal, acqVars, servoPos,
                   procPc, payload, runsThisBuffer,
                   pendingTriggers, absorbed, dspVars, cfgVars,
                   diagPc>>

\* req->send(response): the body sent is safeFFT as it is in this state
\* ("f_send": the mutex was obtained, "f_fail": the take timed out).
WebFftSend ==
    /\ webPc \in {"f_send", "f_fail"}
    /\ safeFFT' = EmptyJson
    /\ rdPos' = 0
    /\ webPc' = "idle"
    /\ UNCHANGED <<setupVars, isBufferFull, timerSensorFlag, servoTriggered,
                   isrVars, fftShared, fftLocal, acqVars, servoPos, procPc,
                   payload, runsThisBuffer,
                   pendingTriggers, absorbed, dspVars, cfgVars,
                   diagPc>>

\* GET /data: the payload expression reads the fields of gData one by one,
\* in the order they are written in the handler.
DataFields == <<"temp", "humi", "lux", "voc", "nox", "srawVoc", "srawNox", "c2", "c3">>

ReadField(pl, f) ==
    CASE f = "temp"    -> [pl EXCEPT !.temp = gData.temp]
      [] f = "humi"    -> [pl EXCEPT !.humi = gData.humi]
      [] f = "lux"     -> [pl EXCEPT !.lux = gData.lux]
      [] f = "voc"     -> [pl EXCEPT !.voc = gData.voc, !.vocOf = vocOf]
      [] f = "nox"     -> [pl EXCEPT !.nox = gData.nox, !.noxOf = noxOf]
      [] f = "srawVoc" -> [pl EXCEPT !.srawVoc = gData.srawVoc]
      [] f = "srawNox" -> [pl EXCEPT !.srawNox = gData.srawNox]
      [] f = "c2"      -> [pl EXCEPT !.c2 = gData.hasBH]
      [] f = "c3"      -> [pl EXCEPT !.c3 = gData.hasSGP]

WebDataBegin ==
    /\ webPc = "idle"
    /\ payload' = NoPayload
    /\ rdPos' = 0
    /\ webPc' = "data"
    /\ UNCHANGED <<setupVars, isBufferFull, timerSensorFlag, servoTriggered,
                   isrVars, fftShared, fftLocal, acqVars, servoPos, procPc,
                   safeFFT, runsThisBuffer,
                   pendingTriggers, absorbed, dspVars, cfgVars,
                   diagPc>>

WebDataRead ==
    /\ webPc = "data"
    /\ rdPos < Len(DataFields)
    /\ payload' = ReadField(payload, DataFields[rdPos + 1])
    /\ rdPos' = rdPos + 1
    /\ UNCHANGED <<setupVars, isBufferFull, timerSensorFlag, servoTriggered,
                   isrVars, fftShared, fftLocal, acqVars, servoPos, procPc,
                   webPc, safeFFT, runsThisBuffer,
                   pendingTriggers, absorbed, dspVars, cfgVars,
                   diagPc>>

\* req->send(response): the body sent is payload as it is in this state
WebDataSend ==
    /\ webPc = "data"
    /\ rdPos = Len(DataFields)
    /\ payload' = NoPayload
    /\ rdPos' = 0
    /\ webPc' = "idle"
    /\ UNCHANGED <<setupVars, isBufferFull, timerSensorFlag, servoTriggered,
                   isrVars, fftShared, fftLocal, acqVars, servoPos, procPc,
                   safeFFT, runsThisBuffer,
                   pendingTriggers, absorbed, dspVars, cfgVars,
                   diagPc>>

\* GET /trigger: servoTriggered = true;
WebTrigger ==
    /\ webPc = "idle"
    /\ servoTriggered' = TRUE
    /\ pendingTriggers' = IF pendingTriggers < 2 THEN pendingTriggers + 1 ELSE 2
    /\ UNCHANGED <<setupVars, isBufferFull, timerSensorFlag, isrVars, fftShared,
                   fftLocal, acqVars, servoPos, procPc, webVars,
                   runsThisBuffer, absorbed,
                   dspVars, cfgVars,
                   diagPc>>

(* ----------------------- configuration handlers ------------------------ *)
\* The requests sent to /set_servo: the parameters present and their values
\* after toInt().
ServoRequests == { [has |-> {"s", "e", "d"}, s |-> 1000, e |-> 2000, d |-> 100],
                   [has |-> {"s"}, s |-> 3000, e |-> 0, d |-> 0] }

\* The requests sent to /set_wifi (the SSID and password strings are not
\* modelled).
WifiRequests == { [has |-> {"m"}, m |-> 0], [has |-> {"m"}, m |-> 1],
                  [has |-> {}, m |-> 0] }

\* The bytes of a 32-bit int as EEPROM.writeInt lays them out: the three low
\* bytes and the high byte.
Low24(n) == n % 16777216
High8(n) == (n \div 16777216) % 256

\* GET /set_servo: each parameter present replaces its variable; the three
\* variables are written at 0, 4 and 8 (the int at 8 ends on byte 11) and
\* committed.
WebSetServo ==
    /\ webPc = "idle"
    /\ \E r \in ServoRequests :
         /\ servoStart' = IF "s" \in r.has THEN r.s ELSE servoStart
         /\ servoEnd' = IF "e" \in r.has THEN r.e ELSE servoEnd
         /\ motionDelay' = IF "d" \in r.has THEN r.d ELSE motionDelay
    /\ eeprom' = (0 :> servoStart') @@ (4 :> servoEnd')
                  @@ (8 :> Low24(motionDelay')) @@ (11 :> High8(motionDelay'))
    /\ saved' = <<servoStart', servoEnd', motionDelay'>>
    /\ restarted' = FALSE
    /\ UNCHANGED <<setupVars, isBufferFull, timerSensorFlag, servoTriggered,
                   isrVars, fftShared, fftLocal, acqVars, servoPos, procPc,
                   webVars, runsThisBuffer, pendingTriggers, absorbed, dspVars,
                   wifiMode, diagPc>>

\* GET /set_wifi up to the restart: the mode, when present, replaces wifiMode
\* and is written to byte 11; then delay(1000).
WebSetWifi ==
    /\ webPc = "idle"
    /\ \E r \in WifiRequests :
         /\ wifiMode' = IF "m" \in r.has THEN r.m ELSE wifiMode
         /\ eeprom' = IF "m" \in r.has
                         THEN [eeprom EXCEPT ![11] = r.m % 256]
                         ELSE eeprom
    /\ webPc' = "restart"
    /\ UNCHANGED <<setupVars, isBufferFull, timerSensorFlag, servoTriggered,
                   isrVars, fftShared, fftLocal, acqVars, servoPos, procPc,
                   safeFFT, rdPos, payload, runsThisBuffer, pendingTriggers,
                   absorbed, dspVars, servoStart, servoEnd, motionDelay,
                   restarted, saved, diagPc>>

\* A reset: the program starts again; the store and the bus stay.
Reboot ==
    /\ setupPc' = "config"
    /\ systemReady' = FALSE
    /\ isBufferFull' = FALSE
    /\ timerSensorFlag' = FALSE
    /\ servoTriggered' = FALSE
    /\ sampleIndex' = 0
    /\ vReal' = [i \in Idx |-> Entry("init", 0)]
    /\ vImag' = [i \in Idx |-> Entry("init", 0)]
    /\ fftMutex' = "free"
    /\ fftJsonData' = EmptyJson
    /\ gData' = InitData
    /\ consecutiveErrors' = 0
    /\ servoPos' = "none"
    /\ procPc' = "none"
    /\ json' = EmptyJson
    /\ wrPos' = 0
    /\ fftTook' = FALSE
    /\ shtHumi' = 0
    /\ sgpNox' = 0
    /\ webPc' = "down"
    /\ safeFFT' = EmptyJson
    /\ rdPos' = 0
    /\ payload' = NoPayload
    /\ lastTick0' = "none"
    /\ cycle' = 0
    /\ runsThisBuffer' = 0
    /\ published' = EmptyJson
    /\ vocOf' = 0
    /\ noxOf' = 0
    /\ sinceSht' = 0
    /\ sinceSgp' = 0
    /\ sinceRetry' = 0
    /\ comp' = NoPair
    /\ recovery' = "none"
    /\ sgpFailed' = FALSE
    /\ lastSht' = NoPair
    /\ bhRead' = "none"
    /\ overrun' = FALSE
    /\ unserved' = FALSE
    /\ pendingTriggers' = 0
    /\ absorbed' = 0
    /\ dspPc' = "idle"
    /\ specBuf' = [i \in DspIdx |-> Entry("init", 0)]
    /\ smoothedBins' = [b \in DspBands |-> 0]
    /\ fftMags' = << >>
    /\ dspRuns' = 0
    /\ zeroFed' = FALSE
    /\ rawBins' = [b \in DspBands |-> 0]
    /\ prevBins' = [b \in DspBands |-> 0]
    /\ dspPublish' = "none"
    /\ begun' = {}
    /\ shtAddr' = 0
    /\ shtAcked' = {}
    /\ servoStart' = 0
    /\ servoEnd' = 0
    /\ motionDelay' = 0
    /\ wifiMode' = 0
    /\ diagPc' = "idle"
    /\ restarted' = TRUE
    /\ UNCHANGED <<onBus, eeprom, saved>>

\* ESP.restart() at the end of the /set_wifi handler.
Restart ==
    /\ webPc = "restart"
    /\ Reboot

\* Environment: the node is powered off and on again.
PowerCycle ==
    /\ setupPc # "config"
    /\ Reboot

\* GET /sys: a payload built from wifiMode and the network state.
WebSys ==
    /\ webPc = "idle"
    /\ UNCHANGED vars

\* GET /: the page built by buildHtmlPage().
WebRoot ==
    /\ webPc = "idle"
    /\ UNCHANGED vars

(* ------------- loop(): the diagnostic started from the serial port ------ *)
\* processingTask is blocked in one of its vTaskDelay calls; loop() runs at a
\* lower priority and is given the processor then.
ProcBlocked == procPc \in {"delay", "servo_hold"}

\* loop(): a character d, t, D or T has arrived; runFullSensorDiagnostic().
DiagStart ==
    /\ setupPc = "done"
    /\ diagPc = "idle"
    /\ ProcBlocked
    /\ diagPc' = "scan"
    /\ UNCHANGED coreVarsButDiag
    /\ UNCHANGED dspVars

\* scanI2CBus(): every address is probed.
DiagScan ==
    /\ diagPc = "scan"
    /\ ProcBlocked
    /\ diagPc' = "sht"
    /\ UNCHANGED coreVarsButDiag
    /\ UNCHANGED dspVars

\* testSHT4x(): sht4x.measureHighPrecision(t, h) is entered when hasSHT is
\* set; the driver sends the command and waits for the conversion.
DiagShtBegin ==
    /\ diagPc = "sht"
    /\ ProcBlocked
    /\ diagPc' = IF gData.hasSHT THEN "sht_busy" ELSE "bh"
    /\ UNCHANGED coreVarsButDiag
    /\ UNCHANGED dspVars

\* measureHighPrecision returns: the result is read into locals and printed.
DiagShtEnd ==
    /\ diagPc = "sht_busy"
    /\ ProcBlocked
    /\ diagPc' = "bh"
    /\ UNCHANGED coreVarsButDiag
    /\ UNCHANGED dspVars

\* testBH1750(): lightMeter.readLightLevel() into a local when hasBH is set.
DiagBh ==
    /\ diagPc = "bh"
    /\ ProcBlocked
    /\ diagPc' = "sgp"
    /\ UNCHANGED coreVarsButDiag
    /\ UNCHANGED dspVars

\* testSGP41(): sgp41.measureRawSignals into locals is entered when hasSGP is
\* set.
DiagSgpBegin ==
    /\ diagPc = "sgp"
    /\ ProcBlocked
    /\ diagPc' = IF gData.hasSGP THEN "sgp_busy" ELSE "sound"
    /\ UNCHANGED coreVarsButDiag
    /\ UNCHANGED dspVars

DiagSgpEnd ==
    /\ diagPc = "sgp_busy"
    /\ ProcBlocked
    /\ diagPc' = "sound"
    /\ UNCHANGED coreVarsButDiag
    /\ UNCHANGED dspVars

\* testSoundSensor(): one analogRead, printed; the diagnostic returns.
DiagSound ==
    /\ diagPc = "sound"
    /\ ProcBlocked
    /\ diagPc' = "idle"
    /\ UNCHANGED coreVarsButDiag
    /\ UNCHANGED dspVars

Diag == DiagStart \/ DiagScan \/ DiagShtBegin \/ DiagShtEnd \/ DiagBh
        \/ DiagSgpBegin \/ DiagSgpEnd \/ DiagSound

(* ------------- the numeric pipeline: processFFTLogic on its own --------- *)
\* float arithmetic (IEEE 754 binary32, round to nearest, ties to even) on
\* values held in units of 2^-26.
RECURSIVE BitLen(_)
BitLen(n) == IF n = 0 THEN 0 ELSE BitLen(n \div 2) + 1

RECURSIVE Pow2(_)
Pow2(k) == IF k = 0 THEN 1 ELSE 2 * Pow2(k - 1)

\* Round to nearest, ties to even: m with a discarded remainder rem, where
\* half is half of the unit of m.
RoundNE(m, rem, half) ==
    IF rem > half \/ (rem = half /\ m % 2 = 1) THEN m + 1 ELSE m

\* The 24-bit significand of a float and the exponent of its last bit.
Expo(n) == BitLen(n) - 24
Mant(n) == IF Expo(n) >= 0 THEN n \div Pow2(Expo(n)) ELSE n * Pow2(-Expo(n))

\* The sum or difference s of two floats, rounded to a float.
FRound(s) ==
    IF BitLen(s) <= 24 THEN s
    ELSE LET d == BitLen(s) - 24
         IN  RoundNE(s \div Pow2(d), s % Pow2(d), Pow2(d - 1)) * Pow2(d)

FAdd(a, b) == FRound(a + b)
FSub(a, b) == FRound(a - b)

\* The product of two floats, rounded to a float: the 48-bit product of the
\* significands is formed from 12-bit halves as hi * 2^24 + lo.  Products
\* below 0.125 are outside the range of the representation and do not
\* occur for the inputs of the model.
FMul(x, y) ==
    IF x = 0 \/ y = 0 THEN 0
    ELSE LET a1 == Mant(x) \div 4096
             a0 == Mant(x) % 4096
             b1 == Mant(y) \div 4096
             b0 == Mant(y) % 4096
             c0 == a0 * b0
             t  == (a1 * b0) + (a0 * b1) + (c0 \div 4096)
             lo == ((t % 4096) * 4096) + (c0 % 4096)
             hi == (a1 * b1) + (t \div 4096)
             big == hi >= Pow2(23)
             m  == IF big THEN RoundNE(hi, lo, Pow2(23))
                   ELSE RoundNE((2 * hi) + (lo \div Pow2(23)), lo % Pow2(23), Pow2(22))
             e  == (IF big THEN 24 ELSE 23) + Expo(x) + Expo(y) - 26
         IN  IF e >= 0 THEN m * Pow2(e) ELSE m \div Pow2(-e)

\* float applyFilter(float current, float prev, float alpha)
applyFilterMut(current, prev, alpha) == FAdd(current, prev)
applyFilter(current, prev, alpha) ==
    IF prev = 0 THEN current
    ELSE FAdd(FMul(current, alpha), FMul(prev, FSub(ONE, alpha)))

\* int samplesPerBin = Config::FFT_SAMPLES / 2 / 32;
SamplesPerBin == (DSP_SAMPLES \div 2) \div DSP_BANDS

\* vReal[i * samplesPerBin + j + 2] for the band with index i (from 0)
BandBin(i, j) == i * SamplesPerBin + j + 2
BandBins(i) == {BandBin(i, j) : j \in 0 .. (SamplesPerBin - 1)}

RECURSIVE MagSum(_, _, _)
\* for (j...) magSum += vReal[i * samplesPerBin + j + 2]
MagSum(buf, i, n) ==
    IF n = 0 THEN 0 ELSE buf[BandBin(i, n - 1)].val + MagSum(buf, i, n - 1)

\* float currentMag = (float)(magSum / samplesPerBin);  the division is
\* exact for the magnitudes of the model (the mutant ignores the bins)
CurrentMagMut(buf, i) == 2 * NOISE_FLOOR
CurrentMag(buf, i) == FRound(MagSum(buf, i, SamplesPerBin) \div SamplesPerBin)

\* if (finalMag < 5.0f) finalMag = 0.0f;
FinalMagMut(v) == IF v < NOISE_FLOOR THEN v ELSE 0
FinalMag(v) == IF v < NOISE_FLOOR THEN 0 ELSE v

\* String(finalMag, 1): the decimal with one fractional digit nearest to the
\* value, as a number of tenths; when the value lies exactly between two of
\* them the digit depends on the library's formatting routine, and either
\* is possible.
Tenths(v) ==
    LET t    == ((v \div ONE) * 10) + (((v % ONE) * 10) \div ONE)
        rem  == ((v % ONE) * 10) % ONE
        half == ONE \div 2
    IN  IF rem > half THEN {t + 1}
        ELSE IF rem < half THEN {t}
        ELSE {t, t + 1}

\* onTimer0 has filled the buffer with DSP_SAMPLES samples (one step here)
\* and the loop enters processFFTLogic.
DspFill ==
    /\ dspPc = "idle"
    /\ dspRuns < MaxRuns
    /\ \E buf \in [DspIdx -> Samples] :
          /\ specBuf' = [i \in DspIdx |-> Entry("adc", buf[i])]
          /\ zeroFed' = \A i \in DspIdx : buf[i] = 0
    /\ dspRuns' = dspRuns + 1
    /\ fftMags' = << >>
    /\ rawBins' = [b \in DspBands |-> 0]
    /\ prevBins' = [b \in DspBands |-> 0]
    /\ dspPublish' = "none"
    /\ dspPc' = "dc"
    /\ UNCHANGED <<smoothedBins, coreVars>>

\* 1. DC removal
DspDc ==
    /\ dspPc = "dc"
    /\ specBuf' = RemoveDC(specBuf)
    /\ dspPc' = "xform"
    /\ UNCHANGED <<smoothedBins, fftMags, dspRuns, zeroFed, rawBins, prevBins,
                   dspPublish, coreVars>>

\* The bin that carries the same magnitude as bin i: the transform of real
\* samples (vImag is all zero) is symmetric about DSP_SAMPLES / 2.
Mirror(i) == IF i <= DSP_SAMPLES \div 2 THEN i ELSE DSP_SAMPLES - i

\* 2. windowing, compute, complexToMagnitude (library code): a buffer of
\* zeros is transformed into zeros, any other buffer into magnitudes that
\* depend on the samples and are drawn from MagVals here.
DspXform ==
    /\ dspPc = "xform"
    /\ IF \A i \in DspIdx : specBuf[i].val = 0
       THEN specBuf' = [i \in DspIdx |-> Entry("fft", 0)]
       ELSE \E mags \in [0 .. (DSP_SAMPLES \div 2) -> MagVals] :
               specBuf' = [i \in DspIdx |-> Entry("fft", mags[Mirror(i)])]
    /\ dspPc' = "bands"
    /\ UNCHANGED <<smoothedBins, fftMags, dspRuns, zeroFed, rawBins, prevBins,
                   dspPublish, coreVars>>

\* smoothedBins[i] = applyFilter(currentMag, smoothedBins[i], alpha); the
\* floor cut-off is applied to the copy finalMag (the mutant applies it to
\* the stored value).
SmoothedMut(buf, prev) ==
    [b \in DspBands |->
        FinalMag(applyFilter(CurrentMag(buf, b - 1), prev[b], ALPHA))]
Smoothed(buf, prev) ==
    [b \in DspBands |-> applyFilter(CurrentMag(buf, b - 1), prev[b], ALPHA)]

\* 3. band reduction, smoothing, floor cut-off and serialisation, band by
\* band in one loop; then xSemaphoreTake(fftMutex, 10 ms), which succeeds
\* (the string is published) or times out (it is dropped).
DspBandLoop ==
    /\ dspPc = "bands"
    /\ rawBins' = [b \in DspBands |-> CurrentMag(specBuf, b - 1)]
    /\ prevBins' = smoothedBins
    /\ smoothedBins' = Smoothed(specBuf, smoothedBins)
    /\ \E taken \in BOOLEAN :
          dspPublish' = IF taken THEN "published" ELSE "skipped"
    /\ fftMags' \in {f \in [DspBands -> UNION {Tenths(FinalMag(smoothedBins'[b])) : b \in DspBands}] :
                       \A b \in DspBands : f[b] \in Tenths(FinalMag(smoothedBins'[b]))}
    /\ dspPc' = "idle"
    /\ UNCHANGED <<specBuf, dspRuns, zeroFed, coreVars>>

Dsp == DspFill \/ DspDc \/ DspXform \/ DspBandLoop

(* --------------------------- specifications ---------------------------- *)
Setup == LoadConfig \/ InitSensors \/ SetupWebServer \/ CreateTask \/ SetReady \/ SetupTimers

Pipeline == LoopCheckFFT \/ FFTDc \/ FFTXform \/ FFTBands \/ FFTTake
            \/ FFTTakeTimeout \/ FFTWrite \/ FFTGive \/ FFTClear

Acquisition == LoopCheckSensor \/ ShtSkip \/ ShtError \/ ShtStoreTemp
               \/ ShtStoreHumi \/ SgpSkip \/ SgpError \/ SgpStoreVoc
               \/ SgpStoreNox \/ SgpVocIndex \/ SgpNoxIndex \/ BhRead
               \/ BusRecovery \/ RetrySkip \/ RetryProbe \/ SensorDone

Servo == ServoCheck \/ ServoReturn \/ LoopDelay

WebFft == WebFftBegin \/ WebFftTake \/ WebFftTimeout \/ WebFftCopy
          \/ WebFftGive \/ WebFftSend

WebData == WebDataBegin \/ WebDataRead \/ WebDataSend

\* The whole program.
Environment == Clock \/ \E dev \in Devices : Attach(dev)

Next == Environment \/ PowerCycle \/ Setup \/ Timer0 \/ Timer1 \/ Pipeline
        \/ Acquisition \/ Servo \/ WebRoot \/ WebFft \/ WebData \/ WebSys
        \/ WebSetWifi \/ Restart \/ WebSetServo \/ WebTrigger \/ Dsp \/ Diag

Spec == Init /\ [][Next]_vars

\* The program is checked in three parts, each a restriction of Next to the
\* runs in which the other part's requests and ticks do not arrive.  The
\* acquisition pass, the servo sweep and the /data and /trigger handlers
\* leave the sample buffers, the full flag, the mutex and the published
\* spectrum unchanged; the pipeline and the /fft handler leave gData and the
\* acquisition state unchanged (see the UNCHANGED clause of each action).

\* Sampling, spectral pipeline and spectral read.
NextFft == Setup \/ Timer0 \/ Pipeline \/ LoopCheckSensor \/ ServoCheck
           \/ LoopDelay \/ WebFft

SpecFft == Init /\ [][NextFft]_vars

\* The steps of processingTask in NextFft. The task has priority 5 on core 1
\* and sleeps 20 ms per loop iteration, so it is always scheduled again: at
\* every position one of its steps is enabled (both outcomes of the take
\* included) and is eventually taken. Nothing is assumed of the web task and
\* of the timer.
TaskStepFft == Pipeline \/ LoopCheckSensor \/ ServoCheck \/ LoopDelay

SpecFftLive == SpecFft /\ WF_vars(TaskStepFft)

\* Acquisition pass and scalar telemetry read, with the thermal/humidity
\* sensor connected at some time and the other two never: the gas read is
\* skipped and the light read finds its sensor absent.
NextAcq == Clock \/ Attach("sht") \/ Setup \/ Timer1 \/ LoopCheckFFT
           \/ LoopCheckSensor \/ ShtSkip \/ ShtError \/ ShtStoreTemp
           \/ ShtStoreHumi \/ SgpSkip \/ BhRead \/ BusRecovery \/ RetrySkip
           \/ RetryProbe \/ SensorDone \/ ServoCheck \/ LoopDelay \/ WebData

SpecAcq == Init /\ [][NextAcq]_vars

\* The acquisition pass next to the diagnostic of loop(), with the
\* thermal/humidity sensor connected at some time and the other two never.
NextDiag == Clock \/ Attach("sht") \/ Setup \/ Timer1 \/ LoopCheckFFT
            \/ LoopCheckSensor \/ ShtSkip \/ ShtError \/ ShtStoreTemp
            \/ ShtStoreHumi \/ SgpSkip \/ BhRead \/ BusRecovery \/ RetrySkip
            \/ RetryProbe \/ SensorDone \/ ServoCheck \/ LoopDelay
            \/ DiagStart \/ DiagScan \/ DiagShtBegin \/ DiagShtEnd \/ DiagBh
            \/ DiagSgpBegin \/ DiagSound

SpecDiag == Init /\ [][NextDiag]_vars

\* Both timers and the processing task, without the HTTP handlers and with
\* no sensor connected: nobody else takes the mutex, so the pipeline's take
\* never times out, no sweep is triggered, and every read of the
\* acquisition pass is skipped.
NextCore == Setup \/ Timer0 \/ Timer1 \/ LoopCheckFFT \/ FFTDc \/ FFTXform
            \/ FFTBands \/ FFTTake \/ FFTWrite \/ FFTGive \/ FFTClear
            \/ LoopCheckSensor \/ ShtSkip \/ SgpSkip \/ BhRead \/ BusRecovery
            \/ RetrySkip \/ SensorDone \/ ServoCheck \/ LoopDelay

SpecCore == Init /\ [][NextCore]_vars

\* The acquisition pass with its environment (clock and devices), without
\* the sampling, the pipeline and the HTTP handlers.
NextSens == Environment \/ Setup \/ Timer1 \/ LoopCheckFFT \/ Acquisition
            \/ ServoCheck \/ LoopDelay

SpecSens == Init /\ [][NextSens]_vars

\* The servo sweep and the /trigger handler, with the processing loop around
\* the sweep and no sensor attached.
NextServo == Setup \/ Timer1 \/ LoopCheckFFT \/ LoopCheckSensor \/ ShtSkip
             \/ SgpSkip \/ BhRead \/ BusRecovery \/ RetrySkip \/ SensorDone
             \/ Servo \/ WebTrigger

SpecServo == Init /\ [][NextServo]_vars

\* The configuration on its own: start-up, the configuration handlers and
\* the restarts.
NextCfg == Setup \/ WebSetServo \/ WebSetWifi \/ Restart \/ PowerCycle
           \/ WebSys \/ WebRoot

SpecCfg == Init /\ [][NextCfg]_vars

\* Every HTTP handler next to the writers of the published state, in runs
\* small enough to enumerate: a node without sensors samples audio and runs
\* the pipeline, a node whose light sensor was connected before start-up runs
\* the acquisition pass, and a request is accepted while no earlier request
\* has left a trace.  The restart that ends /set_wifi is left out: the
\* handler stays in its delay.
WebHandlers == WebRoot \/ WebData \/ WebFft \/ WebSys \/ WebSetWifi
               \/ WebSetServo \/ WebTrigger

FirstRequest ==
    /\ payload = NoPayload
    /\ saved = << >>
    /\ pendingTriggers = 0
    /\ absorbed = 0

WebAccept == WebRoot \/ WebDataBegin \/ WebFftBegin \/ WebSys \/ WebSetWifi
             \/ WebSetServo \/ WebTrigger

WebContinue == WebDataRead \/ WebDataSend \/ WebFftTake \/ WebFftTimeout
               \/ WebFftCopy \/ WebFftGive \/ WebFftSend

NextFrame == \/ setupPc = "config" /\ Attach("bh")
             \/ Setup
             \/ onBus = {} /\ Timer0
             \/ onBus # {} /\ Timer1
             \/ Pipeline
             \/ LoopCheckSensor \/ ShtSkip \/ SgpSkip \/ BhRead \/ BusRecovery
             \/ RetrySkip \/ SensorDone
             \/ Servo
             \/ FirstRequest /\ WebAccept
             \/ WebContinue

SpecFrame == Init /\ [][NextFrame]_vars

\* The numeric pipeline on its own: consecutive invocations of
\* processFFTLogic on freshly filled buffers, nothing else running.
NextDsp == Dsp

SpecDsp == Init /\ [][NextDsp]_vars

\* The steps of processingTask in NextServo.  setup() runs straight through
\* on the Arduino loop task, and the processing task (priority 5, core 1)
\* sleeps in every iteration and is scheduled again, so neither is starved:
\* weak fairness on the steps of each.
TaskStepServo == LoopCheckFFT \/ LoopCheckSensor \/ ShtSkip \/ SgpSkip
                 \/ BhRead \/ BusRecovery \/ RetrySkip \/ SensorDone \/ Servo

SpecServoLive == SpecServo /\ WF_vars(Setup) /\ WF_vars(TaskStepServo)

(* ------------------------------- claims -------------------------------- *)
\* Positions of the processing task at which processFFTLogic is about to
\* read or write vReal/vImag (DC removal, transform, band reduction).
BufferPcs == {"fft_dc", "fft_xform", "fft_bands"}

\* Positions of the processing task inside processFFTLogic.
PipelinePcs == BufferPcs \cup {"fft_take", "fft_write", "fft_give", "fft_clear"}

\* Positions of the processing task inside updateSensorData.
AcquisitionPcs == {"sht", "sht_h", "sgp", "sgp_n", "sgp_voc", "sgp_nox", "bh",
                   "recover", "retry", "sens_done"}

\* C1: the producer stores into the buffer only while the full flag is
\* false, and the pipeline is at a buffer-accessing position only while the
\* full flag is true; hence no tick stores while the pipeline is at such a
\* position.
C1_FlagGatedHandOff ==
    [][ /\ (procPc' \in BufferPcs => isBufferFull')
        /\ ((FFTDc \/ FFTXform \/ FFTBands) => isBufferFull /\ isBufferFull')
        /\ ((Timer0 /\ lastTick0' \in {"store", "fill"})
               => ~isBufferFull /\ procPc \notin BufferPcs) ]_vars

\* C1 witness: a tick arrives while the pipeline is in the middle of its
\* work on the buffer, and is dropped.
C1_Witness == procPc = "fft_xform" /\ lastTick0 = "drop" /\ isBufferFull

\* A spectrum is whole when it is the empty array or has one entry per band,
\* all from the same buffer, with the band frequencies in order.
WholeSpectrum(s) ==
    \/ s = EmptyJson
    \/ /\ Len(s) = NUM_BANDS
       /\ \A b \in Bands : s[b].cyc = s[1].cyc /\ s[b].freq = BandFreq(b - 1)

\* The /fft handler is about to send safeFFT as the response body.
FftResponding == webPc \in {"f_send", "f_fail"}

C6_DataSelfConsistent ==
    (webPc = "data" /\ rdPos = Len(DataFields)) =>
        /\ <<payload.temp, payload.humi>> \in
               ShtPairs \cup {<<DEFAULT_TEMP, DEFAULT_HUMI>>}
        /\ <<payload.srawVoc, payload.srawNox>> \in SgpPairs \cup {<<0, 0>>}
        /\ payload.vocOf = payload.srawVoc
        /\ payload.noxOf = payload.srawNox

\* C7: with the system ready and the flag clear, a tick stores one sample at
\* the current index with imaginary part 0, leaves the other entries alone
\* and advances the index; only the tick that fills the last index sets the
\* flag, and it resets the index to 0.
C7_TickStoresOne ==
    [][ (Timer0 /\ systemReady /\ ~isBufferFull) =>
          /\ sampleIndex \in Idx
          /\ vReal'[sampleIndex].src = "adc"
          /\ vReal'[sampleIndex].val \in Samples
          /\ vImag'[sampleIndex] = Entry("zero", 0)
          /\ \A i \in Idx \ {sampleIndex} :
                vReal'[i] = vReal[i] /\ vImag'[i] = vImag[i]
          /\ IF sampleIndex = FFT_SAMPLES - 1
             THEN sampleIndex' = 0 /\ isBufferFull'
             ELSE sampleIndex' = sampleIndex + 1 /\ ~isBufferFull' ]_vars

\* C7 witness: the tick that filled the last index has set the flag.
C7_Witness ==
    /\ lastTick0 = "fill" /\ isBufferFull /\ sampleIndex = 0
    /\ \A i \in Idx : vReal[i].src = "adc"

\* C8: while the full flag is set, a tick changes neither buffer, nor the
\* index, nor the flag.
C8_FullTickIsNoOp ==
    [][ (Timer0 /\ isBufferFull) =>
          UNCHANGED <<vReal, vImag, sampleIndex, isBufferFull>> ]_vars

\* C8 witness: a tick has been dropped on a full buffer.
C8_Witness == lastTick0 = "drop" /\ isBufferFull /\ procPc = "loop"

\* C9: until systemReady is set no sample is stored, the index stays 0, both
\* flags stay false, and the processing task (already created) is neither
\* in the pipeline nor in the acquisition pass.
C9_QuietUntilReady ==
    ~systemReady =>
        /\ sampleIndex = 0
        /\ \A i \in Idx : vReal[i] = Entry("init", 0) /\ vImag[i] = Entry("init", 0)
        /\ ~isBufferFull
        /\ ~timerSensorFlag
        /\ procPc \notin PipelinePcs \cup AcquisitionPcs
        /\ cycle = 0 /\ runsThisBuffer = 0

\* C9 witness: the processing task runs its loop before systemReady is set.
C9_Witness == ~systemReady /\ procPc = "chk_sensor"

\* C10: the pipeline starts only with the full flag set, and between two
\* consecutive completions of the buffer it runs exactly once.
C10_OncePerBuffer ==
    [][ /\ ((LoopCheckFFT /\ procPc' = "fft_dc") => isBufferFull)
        /\ ((~isBufferFull /\ isBufferFull') => (cycle = 0 \/ runsThisBuffer = 1))
        /\ runsThisBuffer' <= 1
        /\ (~isBufferFull' /\ cycle' # 0 => runsThisBuffer' = 1) ]_vars

\* C10 witness: the buffer has been completed again after a pipeline run
\* that published its spectrum.
C10_Witness ==
    /\ lastTick0 = "fill" /\ isBufferFull /\ runsThisBuffer = 0
    /\ procPc = "loop" /\ fftJsonData # EmptyJson

\* C11: under fair scheduling of the processing task, a set full flag is
\* eventually cleared, whatever the web task does with the mutex (a state
\* that blocked the task with the flag set would falsify this).
C11_BufferDrained == isBufferFull ~> ~isBufferFull

\* C11 witness: the buffer has been drained by an invocation whose take
\* timed out because the web task held the mutex.
C11_Witness ==
    /\ procPc = "chk_sensor" /\ ~isBufferFull /\ cycle # 0
    /\ ~fftTook /\ fftMutex = "web"

\* The three presence flags.
Flags == <<gData.hasBH, gData.hasSGP, gData.hasSHT>>

\* C12 as stated: the recovery check fires exactly when the count of
\* consecutive errors has reached the threshold.
C12_Original ==
    [][BusRecovery =>
          (recovery' = "fired" <=> consecutiveErrors >= BUS_ERROR_LIMIT)]_vars

\* C12 amended: failed thermal/humidity reads leave the presence flags
\* untouched; the recovery check fires exactly when the count exceeds the
\* threshold (one error more than the threshold), resets the counter to 0,
\* and so the count never goes beyond threshold + 1.
C12_FiresBeyondThreshold ==
    [][ /\ (ShtError => Flags' = Flags /\ recovery' = recovery)
        /\ (BusRecovery =>
              /\ Flags' = Flags
              /\ IF consecutiveErrors > BUS_ERROR_LIMIT
                 THEN recovery' = "fired" /\ consecutiveErrors' = 0
                 ELSE recovery' # "fired"
                      /\ consecutiveErrors' = consecutiveErrors)
        /\ consecutiveErrors' <= BUS_ERROR_LIMIT + 1
        /\ (procPc' \notin {"sgp", "sgp_n", "sgp_voc", "sgp_nox", "bh", "recover"}
               => consecutiveErrors' <= BUS_ERROR_LIMIT) ]_vars

\* C12 witness: the recovery has just fired, after threshold + 1 failed
\* reads, and the sensor is still marked present.
C12_Witness ==
    /\ procPc = "retry" /\ recovery = "fired" /\ consecutiveErrors = 0
    /\ gData.hasSHT /\ lastSht = NoPair

\* C13: a recovery leaves the counter at 0 and is never followed by a
\* recovery in the next pass; the counter grows only by one per failed
\* thermal/humidity read, so a new recovery needs a full new run of errors
\* beyond the threshold; a successful thermal/humidity read resets it to 0.
C13_NoRetriggering ==
    [][ /\ ((BusRecovery /\ BusFrozen) =>
               consecutiveErrors' = 0 /\ recovery # "fired")
        /\ ((BusRecovery /\ recovery = "fired") =>
               recovery' = "after" /\ consecutiveErrors <= 1)
        /\ (ShtStoreHumi => consecutiveErrors' = 0)
        /\ (consecutiveErrors' > consecutiveErrors =>
               ShtError /\ consecutiveErrors' = consecutiveErrors + 1) ]_vars

\* C13 witness: the check of the pass after a recovery, with a new failed
\* read counted, has not fired.
C13_Witness ==
    procPc = "retry" /\ recovery = "after" /\ consecutiveErrors = 1

\* C14 as stated: a failed read of any of the three sensors increments the
\* consecutive-error counter and leaves the presence flags as they are.
C14_FailedReadCounts ==
    [][ (ShtError \/ SgpError \/ (BhRead /\ bhRead' = "failed")) =>
          /\ consecutiveErrors' = consecutiveErrors + 1
          /\ Flags' = Flags ]_vars

\* The published readings.
Readings == <<gData.temp, gData.humi, gData.lux, gData.voc, gData.nox,
              gData.srawVoc, gData.srawNox>>

\* C15 as stated: when a read fails, every published reading has after the
\* pass the value it had before: no step of a failed read, the index
\* computation that follows a failed gas read included, changes a reading.
C15_FailedReadKeepsValues ==
    [][ /\ (ShtError => Readings' = Readings)
        /\ ((BhRead /\ bhRead' = "failed") => Readings' = Readings)
        /\ (SgpError => Readings' = Readings)
        /\ (((SgpVocIndex \/ SgpNoxIndex) /\ sgpFailed) =>
               Readings' = Readings) ]_vars

\* C16 as stated: at the reconnection step of a pass in which the retry
\* period has elapsed, every sensor class that is marked absent and whose
\* probe succeeds is marked present and its driver is started.
C16_AbsentReprobed ==
    [][ ((RetrySkip \/ RetryProbe) /\ RetryDue) =>
          \A d \in Devices :
             (~Has(d) /\ Probe(d)) => (Has(d)' /\ d \in begun') ]_vars

\* C17 as stated: initSensors leaves the presence flag of each of the three
\* sensor classes true exactly when its address probe succeeds, and has
\* started the driver of every sensor it marks present.
C17_InitFlagsMatchProbe ==
    [][ InitSensors =>
          \A d \in Devices :
             /\ Has(d)' <=> Probe(d)
             /\ Has(d)' => d \in begun' ]_vars

\* C18: neither a failed read nor the bus recovery changes a presence flag
\* (a flag that is true stays true in every step); a recovery that fires
\* changes nothing of the sensor data and resets the error counter.
C18_FailuresKeepFlags ==
    [][ /\ ((ShtError \/ SgpError \/ (BhRead /\ bhRead' = "failed")
              \/ BusRecovery) => Flags' = Flags /\ begun' = begun)
        /\ ((BusRecovery /\ BusFrozen) =>
               gData' = gData /\ consecutiveErrors' = 0)
        /\ \A d \in Devices : Has(d) => Has(d)' ]_vars

\* C18 witness: the recovery has fired with all three sensors marked
\* present, and they still are.
C18_Witness ==
    /\ procPc = "retry" /\ recovery = "fired"
    /\ gData.hasBH /\ gData.hasSGP /\ gData.hasSHT

\* C19: the compensation pair of a gas read in progress is the pair that
\* the last successful thermal/humidity read delivered when that sensor is
\* marked present (the defaults while no read has succeeded yet), and the
\* fallback pair when it is not; it is always a measured pair or the
\* fallback pair, never a pair with a zero or a half-updated one.
C19_CompensationPair ==
    comp # NoPair =>
        /\ comp \in ShtPairs \cup {<<DEFAULT_TEMP, DEFAULT_HUMI>>}
        /\ (gData.hasSHT /\ lastSht # NoPair) => comp = lastSht
        /\ (~gData.hasSHT \/ lastSht = NoPair) =>
               comp = <<DEFAULT_TEMP, DEFAULT_HUMI>>

\* C19 witness: a gas read in progress compensated with the measured pair
\* (21, 40) that the thermal/humidity read of the same period delivered.
C19_Witness ==
    /\ procPc = "sgp_n" /\ comp = lastSht /\ comp = <<21, 40>>
    /\ gData.hasSHT /\ sinceSht = 0

\* The read periods: a thermal/humidity read starts only when SHT_PERIOD has
\* elapsed since the previous one and a gas read only when SGP_PERIOD has,
\* each restarts its own period, and nothing else restarts a period.
ReadPeriodsKept ==
    /\ (ShtError \/ ShtStoreTemp) => sinceSht >= SHT_PERIOD /\ sinceSht' = 0
    /\ (SgpError \/ SgpStoreVoc) => sinceSgp >= SGP_PERIOD /\ sinceSgp' = 0
    /\ sinceSht' < sinceSht => (ShtError \/ ShtStoreTemp)
    /\ sinceSgp' < sinceSgp => (SgpError \/ SgpStoreVoc)

\* Every acquisition pass that ends has read the light sensor if it is
\* marked present.
LightReadEveryPass ==
    SensorDone => (gData.hasBH => bhRead \in {"ok", "failed"})

C21_TriggersCoalesce ==
    [][ /\ servoTriggered <=> pendingTriggers > 0
        /\ (procPc # "servo_hold" /\ procPc' = "servo_hold") => servoTriggered
        /\ ServoReturn => ~servoTriggered' /\ pendingTriggers' = 0
        /\ (WebTrigger /\ procPc = "servo_hold") =>
               servoTriggered' = servoTriggered /\ servoPos' = servoPos
        /\ (ServoCheck /\ ~servoTriggered) =>
               procPc' = "delay" /\ servoPos' = servoPos ]_vars

\* C21 witness: a sweep has ended that served more than one request, the
\* flag is clear and the loop has passed the sweep without starting another.
C21_Witness ==
    /\ procPc = "delay" /\ absorbed = 2 /\ ~servoTriggered
    /\ pendingTriggers = 0 /\ servoPos = "start"

\* C22: under fair scheduling a request made while no sweep is in flight is
\* eventually served: the servo is driven to the end position, and from
\* there back to the start position with the flag cleared in the same step.
C22_TriggerConsumed ==
    /\ (servoTriggered /\ procPc # "servo_hold")
          ~> (procPc = "servo_hold" /\ servoPos = "end")
    /\ (procPc = "servo_hold")
          ~> (procPc = "delay" /\ servoPos = "start" /\ ~servoTriggered)

\* C22 witness: the loop after a sweep that served exactly one request.
C22_Witness ==
    /\ procPc = "loop" /\ absorbed = 1 /\ servoPos = "start"
    /\ ~servoTriggered

\* alpha * raw + (1 - alpha) * prev, evaluated in float arithmetic.
Ema(raw, prev) == FAdd(FMul(raw, ALPHA), FMul(prev, FSub(ONE, ALPHA)))

\* C23: after every invocation of the pipeline, the smoothed value of every
\* band equals alpha * raw + (1 - alpha) * previous with alpha = 0.2, where
\* raw is that band's raw magnitude in the invocation and previous is that
\* band's own smoothed value before it (0 before the first invocation).
C23_EmaEveryInvocation ==
    (dspPc = "idle" /\ dspRuns > 0) =>
        \A b \in DspBands : smoothedBins[b] = Ema(rawBins[b], prevBins[b])

\* The spacing of the float grid at v (one unit in the last place).
Ulp(v) == IF BitLen(v) > 24 THEN Pow2(BitLen(v) - 24) ELSE 1

Least(a, b) == IF a <= b THEN a ELSE b
Most(a, b) == IF a >= b THEN a ELSE b

\* C24 as stated: in every invocation each band's new smoothed value lies
\* between its previous smoothed value and the raw value (inclusive), and a
\* band whose smoothed value equals the raw value keeps that value.
C24_Original ==
    (dspPc = "idle" /\ dspRuns > 0) =>
        \A b \in DspBands :
            /\ Least(prevBins[b], rawBins[b]) <= smoothedBins[b]
            /\ smoothedBins[b] <= Most(prevBins[b], rawBins[b])
            /\ prevBins[b] = rawBins[b] => smoothedBins[b] = rawBins[b]

\* C24 corrected: the same up to one unit in the last place of float
\* rounding: the new value lies between the previous value and the raw
\* value widened by one float spacing, and a band at the raw value stays
\* within one spacing of it.
C24_NoOvershootBeyondRounding ==
    (dspPc = "idle" /\ dspRuns > 0) =>
        \A b \in DspBands :
            LET u == Ulp(Most(prevBins[b], rawBins[b]))
            IN  /\ Least(prevBins[b], rawBins[b]) - u <= smoothedBins[b]
                /\ smoothedBins[b] <= Most(prevBins[b], rawBins[b]) + u
                /\ prevBins[b] = rawBins[b] =>
                       /\ rawBins[b] <= smoothedBins[b]
                       /\ smoothedBins[b] <= rawBins[b] + u

\* C24 witness: a band fed the same raw value on two consecutive
\* invocations ends one float spacing above it, while another band moves
\* strictly between its previous value and a different raw value.
C24_Witness ==
    /\ dspPc = "idle" /\ dspRuns = 2
    /\ \E b \in DspBands :
          /\ prevBins[b] = rawBins[b] /\ rawBins[b] > 0
          /\ smoothedBins[b] = rawBins[b] + Ulp(rawBins[b])
    /\ \E b \in DspBands :
          /\ prevBins[b] > rawBins[b]
          /\ rawBins[b] < smoothedBins[b] /\ smoothedBins[b] < prevBins[b]

\* The decimal t/10 is exactly the float v.
ExactTenths(t, v) ==
    /\ ((v % ONE) * 10) % ONE = 0
    /\ t = ((v \div ONE) * 10) + (((v % ONE) * 10) \div ONE)

\* The decimal t/10 is within 0.05 of the float v.
Dist(a, b) == IF a >= b THEN a - b ELSE b - a
NearTenths(t, v) ==
    LET d == t - ((v \div ONE) * 10)
    IN  /\ d \in 0 .. 10
        /\ Dist(d * ONE, (v % ONE) * 10) <= ONE \div 2

\* C25 as stated: every serialised band magnitude is 0 or at least 5.0; a
\* band whose smoothed value is below 5.0 is serialised as 0 and a band
\* whose smoothed value is 5.0 or more is serialised with that value.
C25_Original ==
    (dspPc = "idle" /\ dspRuns > 0) =>
        \A b \in DspBands :
            /\ fftMags[b] = 0 \/ fftMags[b] >= 50
            /\ smoothedBins[b] < NOISE_FLOOR => fftMags[b] = 0
            /\ smoothedBins[b] >= NOISE_FLOOR =>
                   ExactTenths(fftMags[b], smoothedBins[b])

\* C25 corrected: the same, with a band at 5.0 or more serialised as the
\* decimal with one fractional digit nearest to its smoothed value.
C25_FloorAndOneDecimal ==
    (dspPc = "idle" /\ dspRuns > 0) =>
        \A b \in DspBands :
            /\ fftMags[b] = 0 \/ fftMags[b] >= 50
            /\ smoothedBins[b] < NOISE_FLOOR => fftMags[b] = 0
            /\ smoothedBins[b] >= NOISE_FLOOR =>
                   NearTenths(fftMags[b], smoothedBins[b])

\* C25 witness: one band below the floor with a nonzero smoothed value is
\* serialised as 0, another at 5.0 or more is serialised as a decimal that
\* differs from its smoothed value.
C25_Witness ==
    /\ dspPc = "idle" /\ dspRuns > 0
    /\ \E b \in DspBands :
          /\ 0 < smoothedBins[b] /\ smoothedBins[b] < NOISE_FLOOR
          /\ fftMags[b] = 0
    /\ \E b \in DspBands :
          /\ smoothedBins[b] >= NOISE_FLOOR /\ fftMags[b] >= 50
          /\ ~ExactTenths(fftMags[b], smoothedBins[b])

\* C26: after every invocation, the groups of bins that were averaged into
\* the bands are contiguous, pairwise disjoint and of equal width, every bin
\* index of every group is at least 2 and less than half the buffer length,
\* and each band's raw value is the mean of the magnitudes of its group.
C26_BandPartition ==
    (dspPc = "idle" /\ dspRuns > 0) =>
        /\ \A i \in 0 .. (DSP_BANDS - 1) :
              /\ Cardinality(BandBins(i)) = SamplesPerBin
              /\ \A k \in BandBins(i) : k >= 2 /\ k < DSP_SAMPLES \div 2
              /\ \A k \in BandBins(i) :
                    k = 2 + i * SamplesPerBin \/ k - 1 \in BandBins(i)
              /\ \A j \in 0 .. (DSP_BANDS - 1) :
                    i # j => BandBins(i) \cap BandBins(j) = {}
        /\ \A b \in DspBands :
              rawBins[b] * SamplesPerBin = MagSum(specBuf, b - 1, SamplesPerBin)

\* The magnitudes serialised by an invocation are all zero.
AllZero == \A b \in DspBands : fftMags[b] = 0

\* C27 as stated: an invocation on a buffer of all-zero samples serialises
\* zero for every band, whatever invocations preceded it.
C27_Original ==
    (dspPc = "idle" /\ dspRuns > 0 /\ zeroFed) => AllZero

\* C27 corrected: an invocation on a buffer of all-zero samples has raw
\* value 0 in every band, leaves a band at 0 where it found 0 and otherwise
\* multiplies the band's smoothed value by 1 - alpha, and serialises zero
\* for exactly the bands whose result is below the floor; in particular
\* the first invocation after startup serialises all zeros.
C27_ZeroBufferDecays ==
    (dspPc = "idle" /\ dspRuns > 0 /\ zeroFed) =>
        /\ \A b \in DspBands :
              /\ rawBins[b] = 0
              /\ smoothedBins[b] = FMul(prevBins[b], FSub(ONE, ALPHA))
              /\ fftMags[b] = 0 <=> smoothedBins[b] < NOISE_FLOOR
        /\ dspRuns = 1 => AllZero
        /\ (\A b \in DspBands : FMul(prevBins[b], FSub(ONE, ALPHA)) < NOISE_FLOOR)
              => AllZero

\* C27 witness: a buffer of zeros processed after a loud invocation: one
\* band still serialised above the floor, another decayed below it and
\* serialised as zero.
C27_Witness ==
    /\ dspPc = "idle" /\ dspRuns = 2 /\ zeroFed
    /\ \E b \in DspBands : prevBins[b] > 0 /\ fftMags[b] = 0
    /\ \E b \in DspBands : fftMags[b] >= 50

\* C28: when the transform is about to run, every entry of the buffer is a
\* sample minus the mean of the buffer just filled, so the entries sum to
\* zero; the transform never works on entries that have not been through
\* DC removal, and the band loop only on transformed entries.
C28_ZeroMeanBeforeTransform ==
    /\ dspPc = "xform" =>
          /\ \A i \in DspIdx : specBuf[i].src = "dc"
          /\ SumVals(specBuf, DSP_SAMPLES) = 0
    /\ dspPc = "dc" => \A i \in DspIdx : specBuf[i].src = "adc"
    /\ dspPc = "bands" => \A i \in DspIdx : specBuf[i].src = "fft"

\* C28 witness: the second invocation about to transform a buffer that was
\* neither all zero nor constant.
C28_Witness ==
    /\ dspPc = "xform" /\ dspRuns = 2 /\ ~zeroFed
    /\ \E i \in DspIdx : specBuf[i].val > 0
    /\ \E i \in DspIdx : specBuf[i].val < 0

\* C30: once setup has completed after a restart that followed a /set_servo
\* whose saved start is in 500..2500, servoStart, servoEnd and motionDelay
\* are the saved values.
C30_SavedServoValuesUsed ==
    (restarted /\ setupPc = "done" /\ saved # << >> /\ saved[1] \in 500 .. 2500)
        => <<servoStart, servoEnd, motionDelay>> = saved

IndexInBounds ==
    /\ sampleIndex \in Idx
    /\ DOMAIN vReal = Idx
    /\ DOMAIN vImag = Idx
    /\ isBufferFull => sampleIndex = 0

\* C31: in every state between interrupt executions 0 <= sampleIndex < S and
\* a set full flag goes with index 0; the step that clears the flag leaves
\* the index at 0, so the first sample after re-arming goes to index 0.
C31_IndexWithinBuffer ==
    /\ []IndexInBounds
    /\ [][ (isBufferFull /\ ~isBufferFull') => sampleIndex' = 0 ]_vars

\* C31 witness: after the pipeline has run and the flag was cleared, the
\* first new sample sits at index 0, next to transform output.
C31_Witness ==
    /\ cycle # 0 /\ ~isBufferFull /\ lastTick0 = "store" /\ sampleIndex = 1
    /\ vReal[0].src = "adc"
    /\ \A i \in Idx \ {0} : vReal[i].src # "adc"

\* C32: whenever the pipeline starts, every real entry is a sample stored by
\* the ISR (none is output of an earlier DC removal or transform, none is the
\* initial content) and every imaginary entry is the 0 the ISR stored.
C32_FreshBufferAtStart ==
    procPc = "fft_dc" =>
        /\ isBufferFull
        /\ \A i \in Idx : vReal[i].src = "adc" /\ vReal[i].val \in Samples
        /\ \A i \in Idx : vImag[i] = Entry("zero", 0)

\* C32 witness: the pipeline starts on a later buffer, after an earlier run
\* transformed the buffers in place and published its spectrum.
C32_Witness ==
    /\ procPc = "fft_dc"
    /\ fftJsonData # EmptyJson
    /\ runsThisBuffer = 1

\* C33: a Timer-1 tick that no pass has begun after is still pending, also
\* when it arrived while a pass was running: the flag it set is not cleared
\* before a pass has begun after it.
C33_TickNotLost == unserved => timerSensorFlag

\* The processing task is inside a sensor driver call (measureHighPrecision
\* between its two results, measureRawSignals), and so is the diagnostic.
ProcInDriver == procPc \in {"sht_h", "sgp_n"}
DiagInDriver == diagPc \in {"sht_busy", "sgp_busy"}

\* C34: after start-up the processing task and the diagnostic of loop() are
\* never inside a sensor transaction at the same time.
C34_OneBusUserAtATime == ~(ProcInDriver /\ DiagInDriver)

C36_ErrorCounterRange ==
    /\ [](consecutiveErrors \in 0 .. (BUS_ERROR_LIMIT + 1))
    /\ [](procPc \notin AcquisitionPcs => consecutiveErrors <= BUS_ERROR_LIMIT)
    /\ [][ /\ SensorDone => consecutiveErrors <= BUS_ERROR_LIMIT
           /\ consecutiveErrors' # consecutiveErrors =>
                 \/ ShtError /\ consecutiveErrors' = consecutiveErrors + 1
                 \/ ShtStoreHumi /\ consecutiveErrors' = 0
                 \/ BusRecovery /\ BusFrozen /\ consecutiveErrors' = 0
           /\ (SgpSkip \/ SgpError \/ SgpStoreVoc \/ SgpStoreNox \/ SgpVocIndex
                 \/ SgpNoxIndex \/ BhRead \/ RetrySkip \/ RetryProbe) =>
                 consecutiveErrors' = consecutiveErrors ]_vars

\* C36 witness: the counter has passed the limit inside a pass, after a gas
\* read and before the recovery check.
C36_Witness ==
    /\ consecutiveErrors = BUS_ERROR_LIMIT + 1
    /\ procPc = "bh" /\ gData.hasSGP

\* C37: the acquisition pass reads a sensor only while its presence flag is
\* true, a flag is true only when the sensor's driver has been started, a
\* flag that becomes true does so in the step that starts the driver, and no
\* driver is started twice: neither start-up nor the retry starts a driver
\* that has been started before.
C37_StartedOnceBeforeRead ==
    /\ [](\A d \in Devices : Has(d) => d \in begun)
    /\ [][ /\ (ShtError \/ ShtStoreTemp) => (gData.hasSHT /\ "sht" \in begun)
           /\ (SgpError \/ SgpStoreVoc) => (gData.hasSGP /\ "sgp" \in begun)
           /\ (BhRead /\ bhRead' # "absent") => (gData.hasBH /\ "bh" \in begun)
           /\ \A d \in Devices :
                 (~Has(d) /\ Has(d)') => (d \notin begun /\ d \in begun')
           /\ InitSensors => (begun = {} /\ begun' = InitBegins)
           /\ RetryProbe => (RetryBegins \cap begun = {}
                              /\ begun' = begun \cup RetryBegins)
           /\ begun' # begun => (InitSensors \/ RetryProbe) ]_vars

\* C37 witness: a gas read in progress on a node with all three sensors
\* marked present; the gas sensor's driver can only have been started by
\* the retry.
C37_Witness ==
    /\ procPc = "sgp_n"
    /\ gData.hasSGP /\ gData.hasSHT /\ gData.hasBH
    /\ begun = Devices

\* C38: the stored smoothed value of a band changes only in the band loop,
\* where it becomes the filter's result for the band's raw value and its own
\* stored value, whether or not that stored value was below the floor (and
\* so serialised as 0) and whether the publication succeeds or is skipped;
\* the band loop is the only step that alters the stored values.
C38_SmoothingStateKept ==
    /\ []((dspPc = "idle" /\ dspRuns > 0) =>
            \A b \in DspBands :
               smoothedBins[b] = applyFilter(rawBins[b], prevBins[b], ALPHA))
    /\ [][ /\ smoothedBins' # smoothedBins => DspBandLoop
           /\ DspBandLoop =>
                 /\ prevBins' = smoothedBins
                 /\ \A b \in DspBands :
                       smoothedBins'[b] =
                          applyFilter(CurrentMag(specBuf, b - 1),
                                      smoothedBins[b], ALPHA) ]_vars

\* C38 witness: after a skipped publication, a band that the previous cycle
\* left below the floor with a nonzero value has been smoothed from that
\* value, not from 0 and not from the raw value alone.
C38_Witness ==
    /\ dspPc = "idle" /\ dspRuns >= 2 /\ dspPublish = "skipped"
    /\ \E b \in DspBands :
          /\ 0 < prevBins[b] /\ prevBins[b] < NOISE_FLOOR
          /\ rawBins[b] > 0
          /\ smoothedBins[b] # rawBins[b]
          /\ smoothedBins[b] # prevBins[b]

\* C39: in every step that starts the thermal/humidity driver, at start-up
\* or in the retry, the address the driver is given is one at which a probe
\* of that call succeeded, and it is 0x44 whenever a probe of 0x44 succeeded
\* in that call.
C39_AddressAnswered ==
    [][ ((InitSensors \/ RetryProbe) /\ "sht" \in begun' /\ "sht" \notin begun) =>
          /\ shtAddr' \in shtAcked'
          /\ SHT_ADDR_A \in shtAcked' => shtAddr' = SHT_ADDR_A ]_vars

====
